---- MODULE Spec2Model ----
(***************************************************************************)
(* Model of the amazon-crawler workflow: main.py drives AmazonService      *)
(* (services/amazon_service.py) over one Selenium browser session.         *)
(*                                                                         *)
(* The program is sequential.  It is modelled as one process with a        *)
(* program counter, a stack of return labels and one record of locals per  *)
(* group of functions.  The browser, the console and the file system are   *)
(* the environment: every browser operation draws its outcome (element     *)
(* found, timeout, error) when it is executed.                             *)
(***************************************************************************)
EXTENDS Integers, Sequences, FiniteSets, TLC

(* ---------------------------------------------------------------------- *)
(* Bounds of the model                                                     *)
(* ---------------------------------------------------------------------- *)
MaxRows == 2          \* rows of an input CSV file
MaxListingPages == 2  \* search result pages the site serves
MaxContainers == 1    \* result containers on one search result page
MaxReviewPages == 2   \* review pages the site serves for one product
MaxNodes == 1         \* review nodes on one review page
MaxProductsArg == 2   \* largest --max-products value tried
MaxReviewsArg == 1    \* largest --max-reviews value tried

(* ---------------------------------------------------------------------- *)
(* Program constants                                                       *)
(* ---------------------------------------------------------------------- *)
MaxRetries == 3       \* perform_search(max_retries=3)
TitleCut == 30        \* product_title[:30] in save_reviews_to_csv

NoVal == "NoVal"      \* nothing returned (a call in progress, or a call that raised)

\* an optional integer argument: None when the flag is not given, Some(n) when it is
None == <<>>
Some(n) == <<n>>

\* review_url_templates of navigate_to_reviews_by_asin, in list order
ReviewDomains == <<".com", ".de", ".co.uk">>

\* the five elements the login-result wait looks for
LoginMarkers == {"cm_cr-review_list", "auth-error-message-box", "ap_captcha_img",
                 "auth-mfa-otpcode", "cvf-page-content"}

Asins == {"B01", "B02"}

\* product titles, as sequences of characters
Titles == {<<"T", "V", "-">>}

\* values of the model and region columns of an ASIN-list file
Models == {<<"X">>}
Regions == {<<"U">>}

VARIABLES
    pc,       \* label of the statement the process executes next
    stack,    \* return labels of the calls in progress
    retval,   \* value returned by the call that just ended
    exc,      \* exception raised by the call that just ended ("none" if none)
    args,     \* parsed command line (argparse.Namespace)
    driver,   \* the browser session handle and what the browser shows
    files,    \* file system: path -> rows written
    mainv,    \* locals of main, scrape_products and the two review loops
    search,   \* locals of perform_search
    listing,  \* locals of extract_product_data, filter_products_by_os, visit_product_details
    nav,      \* locals of navigate_to_reviews_by_asin, _is_login_form_present, _handle_login
    rev,      \* locals of extract_reviews, _has_next_page, _go_to_next_page, _translate_reviews_to_english
    hsc       \* locals of handle_security_challenges

vars == <<pc, stack, retval, exc, args, driver, files, mainv, search, listing, nav, rev, hsc>>

(* ---------------------------------------------------------------------- *)
(* Control transfer (Python call, return, raise)                           *)
(* ---------------------------------------------------------------------- *)
\* continue with the statement labelled l of the same function
Step(l) ==
    /\ pc' = l
    /\ retval' = NoVal
    /\ exc' = "none"
    /\ UNCHANGED stack

\* call the function whose first statement is f; r is the statement after the call
Call(f, r) ==
    /\ pc' = f
    /\ stack' = Append(stack, r)
    /\ retval' = NoVal
    /\ exc' = "none"

\* return v to the caller
Return(v) ==
    /\ pc' = stack[Len(stack)]
    /\ stack' = SubSeq(stack, 1, Len(stack) - 1)
    /\ retval' = v
    /\ exc' = "none"

\* leave the function with exception e, which no handler of the function catches
Raise(e) ==
    /\ pc' = stack[Len(stack)]
    /\ stack' = SubSeq(stack, 1, Len(stack) - 1)
    /\ retval' = NoVal
    /\ exc' = e

(* ---------------------------------------------------------------------- *)
(* Initial values of the locals                                            *)
(* ---------------------------------------------------------------------- *)
NoProduct == [kind |-> "none", title |-> <<>>, link |-> "", asin |-> ""]

MainInit == [products |-> <<>>, filtered_products |-> <<>>, caught |-> "none",
             escaped |-> "none", i |-> 0, product |-> NoProduct, reviews |-> <<>>,
             review_filename |-> <<>>, navigated |-> <<>>, extracted |-> <<>>,
             saved |-> <<>>]

DriverInit == [session |-> "none", quitCalls |-> 0, navKind |-> "none",
               pageChecked |-> TRUE, url |-> [hasParam |-> FALSE, pageNumber |-> 1]]

SearchInit == [retries |-> 0, gets |-> 0, backoffs |-> 0]

HscInit == [prompts |-> 0, found |-> FALSE]

NavInit == [idx |-> 1, loads |-> <<>>, outcomes |-> <<>>,
            page |-> [reviewList |-> FALSE, email |-> "absent"],
            logins |-> 0, submitted |-> FALSE, seen |-> {}, login |-> "none"]

RevInit == [all_reviews |-> <<>>, current_page |-> 1, n |-> 0, k |-> 0,
            visited |-> <<>>, found |-> <<>>, next_page |-> 0,
            translated |-> <<>>, lastNext |-> "none", end |-> "none"]

ListingInit == [all_products |-> <<>>, current_page |-> 1, n |-> 0, k |-> 0,
                products |-> <<>>, validated |-> <<>>, i |-> 1, tried |-> <<>>,
                is_matching_os |-> FALSE,
                container |-> None, pages |-> <<>>, perPage |-> <<>>, nexts |-> <<>>,
                kept |-> <<>>]

(* ---------------------------------------------------------------------- *)
(* utils/security_utils.py: handle_security_challenges                     *)
(* ---------------------------------------------------------------------- *)
\* the two find_elements scans for challenge markers
HSC_Scan ==
    /\ pc = "handle_security_challenges"
    /\ driver' = [driver EXCEPT !.pageChecked = TRUE]
    /\ \E o \in {"error", "marker", "captcha_input", "none"} :
         \/ /\ o = "error"                      \* except Exception: print, return False
            /\ hsc' = HscInit
            /\ Return(FALSE)
         \/ /\ o \in {"marker", "captcha_input"}
            /\ hsc' = [prompts |-> 0, found |-> TRUE]
            /\ Step("hsc_prompt")
         \/ /\ o = "none"
            /\ hsc' = HscInit
            /\ Return(FALSE)
    /\ UNCHANGED <<args, files, mainv, search, listing, nav, rev>>

\* input(...): the process blocks until the operator answers on the console
HSC_Prompt ==
    /\ pc = "hsc_prompt"
    /\ hsc' = [hsc EXCEPT !.prompts = @ + 1]
    /\ \E o \in {"answered", "eof"} :
         \/ /\ o = "answered"
            /\ Return(TRUE)
         \/ /\ o = "eof"                        \* EOFError, caught by except Exception
            /\ Return(FALSE)
    /\ UNCHANGED <<args, driver, files, mainv, search, listing, nav, rev>>

(* ---------------------------------------------------------------------- *)
(* AmazonService.perform_search                                            *)
(* ---------------------------------------------------------------------- *)
PS_Entry ==
    /\ pc = "perform_search"
    /\ search' = SearchInit
    /\ Step("ps_while")
    /\ UNCHANGED <<args, driver, files, mainv, listing, nav, rev, hsc>>

PS_While ==
    /\ pc = "ps_while"
    /\ IF search.retries < MaxRetries
         THEN Step("ps_get")
         ELSE Return(NoVal)
    /\ UNCHANGED <<args, driver, files, mainv, search, listing, nav, rev, hsc>>

\* self.driver.get("https://www.amazon.com/")
PS_Get ==
    /\ pc = "ps_get"
    /\ search' = [search EXCEPT !.gets = @ + 1]
    /\ driver' = [driver EXCEPT !.navKind = "home", !.pageChecked = FALSE]
    /\ \E ok \in BOOLEAN :
         IF ok THEN Step("ps_challenge") ELSE Step("ps_except")
    /\ UNCHANGED <<args, files, mainv, listing, nav, rev, hsc>>

PS_Challenge ==
    /\ pc = "ps_challenge"
    /\ Call("handle_security_challenges", "ps_box")
    /\ UNCHANGED <<args, driver, files, mainv, search, listing, nav, rev, hsc>>

\* WebDriverWait(...).until(presence of the search box)
PS_Box ==
    /\ pc = "ps_box"
    /\ \E found \in BOOLEAN :
         IF found THEN Step("ps_type") ELSE Step("ps_except")
    /\ hsc' = HscInit
    /\ UNCHANGED <<args, driver, files, mainv, search, listing, nav, rev>>

\* clear the box, type the term character by character, press RETURN
PS_Type ==
    /\ pc = "ps_type"
    /\ \E ok \in BOOLEAN :
         IF ok THEN Step("ps_results") ELSE Step("ps_except")
    /\ UNCHANGED <<args, driver, files, mainv, search, listing, nav, rev, hsc>>

\* WebDriverWait(...).until(presence of div.s-result-item); return True
PS_Results ==
    /\ pc = "ps_results"
    /\ \E found \in BOOLEAN :
         IF found THEN Return(TRUE) ELSE Step("ps_except")
    /\ UNCHANGED <<args, driver, files, mainv, search, listing, nav, rev, hsc>>

\* variant: the give-up test written with > instead of >=
PS_Except_OffByOne ==
    /\ pc = "ps_except"
    /\ IF search.retries + 1 > MaxRetries
         THEN /\ search' = [search EXCEPT !.retries = @ + 1]
              /\ Return(FALSE)
         ELSE /\ search' = [search EXCEPT !.retries = @ + 1, !.backoffs = @ + 1]
              /\ Step("ps_get")
    /\ UNCHANGED <<args, driver, files, mainv, listing, nav, rev, hsc>>

\* except Exception: count the failure, give up or back off and retry
PS_Except ==
    /\ pc = "ps_except"
    /\ IF search.retries + 1 >= MaxRetries
         THEN /\ search' = [search EXCEPT !.retries = @ + 1]
              /\ Return(FALSE)
         ELSE /\ search' = [search EXCEPT !.retries = @ + 1, !.backoffs = @ + 1]
              /\ Step("ps_while")
    /\ UNCHANGED <<args, driver, files, mainv, listing, nav, rev, hsc>>

(* ---------------------------------------------------------------------- *)
(* AmazonService.extract_product_data                                      *)
(* ---------------------------------------------------------------------- *)
\* what one result container of a search page holds: the data-asin attribute,
\* whether the primary title link is found ("nosuch": NoSuchElementException,
\* "error": any other exception), whether the alternate title link is found,
\* and the title text and href of the link that is found
Containers == [asin : {""} \cup Asins,
               primary : {"ok", "nosuch", "error"},
               alt : {"ok", "fail"},
               title : {<<>>} \cup Titles,
               link : {"", "url"}]

\* variant: the record is added without the `if title and link and asin` test
ContainerProducts_NoTest(c) ==
    LET rec == [kind |-> "Product", title |-> c.title, link |-> c.link, asin |-> c.asin]
    IN  CASE c.primary = "ok" -> <<rec>>
          [] c.primary = "nosuch" -> IF c.alt = "ok" THEN <<rec>> ELSE <<>>
          [] OTHER -> <<>>

\* the body of `for product in product_elements`: the records container c adds
ContainerProducts(c) ==
    LET rec == [kind |-> "Product", title |-> c.title, link |-> c.link, asin |-> c.asin]
        complete == c.title # <<>> /\ c.link # "" /\ c.asin # ""
    IN  CASE c.primary = "ok" -> IF complete THEN <<rec>> ELSE <<>>
          [] c.primary = "nosuch" -> IF c.alt = "ok" /\ complete THEN <<rec>> ELSE <<>>
          [] OTHER -> <<>>

EPD_Entry ==
    /\ pc = "extract_product_data"
    /\ listing' = ListingInit
    /\ Step("epd_wait")
    /\ UNCHANGED <<args, driver, files, mainv, search, nav, rev, hsc>>

\* variant: the outer except returns an empty list
EPD_Wait_Empty ==
    /\ pc = "epd_wait"
    /\ \E found \in BOOLEAN :
         IF found THEN Step("epd_find") ELSE Return(<<>>)
    /\ UNCHANGED <<args, driver, files, mainv, search, listing, nav, rev, hsc>>

\* wait for div.s-result-item; a timeout ends the traversal (outer except)
EPD_Wait ==
    /\ pc = "epd_wait"
    /\ \E found \in BOOLEAN :
         IF found THEN Step("epd_find") ELSE Return(listing.all_products)
    /\ UNCHANGED <<args, driver, files, mainv, search, listing, nav, rev, hsc>>

\* find_elements(result containers) of the current page
EPD_Find ==
    /\ pc = "epd_find"
    /\ \/ \E n \in 0 .. MaxContainers :
            /\ listing' = [listing EXCEPT !.n = n, !.k = 0,
                                          !.pages = Append(@, listing.current_page),
                                          !.perPage = Append(@, <<>>)]
            /\ IF n = 0 THEN Step("epd_next") ELSE Step("epd_item")
       \/ /\ Return(listing.all_products)       \* outer except Exception
          /\ UNCHANGED listing
    /\ UNCHANGED <<args, driver, files, mainv, search, nav, rev, hsc>>

\* one iteration of `for product in product_elements`
EPD_Item ==
    /\ pc = "epd_item"
    /\ \E c \in Containers :
         listing' = [listing EXCEPT !.all_products = @ \o ContainerProducts(c),
                                    !.k = @ + 1,
                                    !.container = Some(c),
                                    !.perPage[Len(listing.perPage)] = @ \o ContainerProducts(c)]
    /\ IF listing.k + 1 = listing.n THEN Step("epd_next") ELSE Step("epd_item")
    /\ UNCHANGED <<args, driver, files, mainv, search, nav, rev, hsc>>

\* look up the next-page control
EPD_Next ==
    /\ pc = "epd_next"
    /\ \E o \in {"absent", "disabled", "enabled", "error"} :
         /\ listing' = [listing EXCEPT !.nexts = Append(@, o), !.container = None]
         /\ \/ /\ o \in {"absent", "disabled", "error"}
               /\ Return(listing.all_products)
            \/ /\ o = "enabled"
               /\ listing.current_page < MaxListingPages
               /\ Step("epd_click")
    /\ UNCHANGED <<args, driver, files, mainv, search, nav, rev, hsc>>

\* scroll to the control, highlight it, move to it, click it
EPD_Click ==
    /\ pc = "epd_click"
    /\ \E ok \in BOOLEAN :
         IF ok
           THEN /\ driver' = [driver EXCEPT !.navKind = "listing_next", !.pageChecked = FALSE]
                /\ Step("epd_challenge")
           ELSE /\ UNCHANGED driver
                /\ Return(listing.all_products)
    /\ UNCHANGED <<args, files, mainv, search, listing, nav, rev, hsc>>

EPD_Challenge ==
    /\ pc = "epd_challenge"
    /\ Call("handle_security_challenges", "epd_turned")
    /\ UNCHANGED <<args, driver, files, mainv, search, listing, nav, rev, hsc>>

EPD_Turned ==
    /\ pc = "epd_turned"
    /\ listing' = [listing EXCEPT !.current_page = @ + 1]
    /\ hsc' = HscInit
    /\ Step("epd_wait")
    /\ UNCHANGED <<args, driver, files, mainv, search, nav, rev>>

(* ---------------------------------------------------------------------- *)
(* AmazonService.visit_product_details                                     *)
(* ---------------------------------------------------------------------- *)
VP_Get ==
    /\ pc = "visit_product_details"
    /\ driver' = [driver EXCEPT !.navKind = "detail", !.pageChecked = FALSE]
    /\ \E ok \in BOOLEAN :
         IF ok THEN Step("vp_challenge") ELSE Return(FALSE)
    /\ UNCHANGED <<args, files, mainv, search, listing, nav, rev, hsc>>

VP_Challenge ==
    /\ pc = "vp_challenge"
    /\ Call("handle_security_challenges", "vp_wait")
    /\ UNCHANGED <<args, driver, files, mainv, search, listing, nav, rev, hsc>>

\* wait for #productTitle
VP_Wait ==
    /\ pc = "vp_wait"
    /\ hsc' = HscInit
    /\ \E found \in BOOLEAN : Return(found)
    /\ UNCHANGED <<args, driver, files, mainv, search, listing, nav, rev>>

(* ---------------------------------------------------------------------- *)
(* AmazonService.filter_products_by_os and its three strategies            *)
(* ---------------------------------------------------------------------- *)
FL_Entry ==
    /\ pc = "filter_products_by_os"
    /\ listing' = [ListingInit EXCEPT !.products = mainv.products]
    /\ Step("fl_loop")
    /\ UNCHANGED <<args, driver, files, mainv, search, nav, rev, hsc>>

\* `for i, product in enumerate(products)`: visit the next product or finish
FL_Loop ==
    /\ pc = "fl_loop"
    /\ IF listing.i > Len(listing.products)
         THEN Return(listing.validated)
         ELSE Call("visit_product_details", "fl_visited")
    /\ UNCHANGED <<args, driver, files, mainv, search, listing, nav, rev, hsc>>

FL_Visited ==
    /\ pc = "fl_visited"
    /\ IF retval = TRUE
         THEN /\ listing' = [listing EXCEPT !.is_matching_os = FALSE, !.tried = <<>>]
              /\ Step("fl_system")
         ELSE /\ listing' = [listing EXCEPT !.i = @ + 1, !.tried = <<>>,
                                            !.kept = Append(@, FALSE)]
              /\ Step("fl_loop")
    /\ UNCHANGED <<args, driver, files, mainv, search, nav, rev, hsc>>

\* _check_system_expandable_section: True on a match, False on no match or error
FL_System ==
    /\ pc = "fl_system"
    /\ \E o \in {"match", "nomatch", "error"} :
         /\ listing' = [listing EXCEPT !.is_matching_os = (o = "match"),
                                       !.tried = Append(@, <<"system", o>>)]
         /\ IF o = "match" THEN Step("fl_add") ELSE Step("fl_comparison")
    /\ UNCHANGED <<args, driver, files, mainv, search, nav, rev, hsc>>

\* variant: no third strategy after the comparison tables
FL_Comparison_Last ==
    /\ pc = "fl_comparison"
    /\ \E o \in {"match", "nomatch", "error"} :
         /\ listing' = [listing EXCEPT !.is_matching_os = (o = "match"),
                                       !.tried = Append(@, <<"comparison", o>>)]
         /\ Step("fl_add")
    /\ UNCHANGED <<args, driver, files, mainv, search, nav, rev, hsc>>

\* _check_comparison_tables
FL_Comparison ==
    /\ pc = "fl_comparison"
    /\ \E o \in {"match", "nomatch", "error"} :
         /\ listing' = [listing EXCEPT !.is_matching_os = (o = "match"),
                                       !.tried = Append(@, <<"comparison", o>>)]
         /\ IF o = "match" THEN Step("fl_add") ELSE Step("fl_specification")
    /\ UNCHANGED <<args, driver, files, mainv, search, nav, rev, hsc>>

\* _check_specification_tables
FL_Specification ==
    /\ pc = "fl_specification"
    /\ \E o \in {"match", "nomatch", "error"} :
         listing' = [listing EXCEPT !.is_matching_os = (o = "match"),
                                    !.tried = Append(@, <<"specification", o>>)]
    /\ Step("fl_add")
    /\ UNCHANGED <<args, driver, files, mainv, search, nav, rev, hsc>>

\* `if is_matching_os: validated_products.append(product)`
FL_Add ==
    /\ pc = "fl_add"
    /\ listing' = [listing EXCEPT
                     !.validated = IF listing.is_matching_os
                                     THEN Append(@, listing.products[listing.i])
                                     ELSE @,
                     !.kept = Append(@, listing.tried[Len(listing.tried)][2] = "match"),
                     !.tried = <<>>,
                     !.i = @ + 1]
    /\ Step("fl_loop")
    /\ UNCHANGED <<args, driver, files, mainv, search, nav, rev, hsc>>

(* ---------------------------------------------------------------------- *)
(* AmazonService.save_to_csv                                               *)
(* ---------------------------------------------------------------------- *)
\* product.model_dump(): the fields of a Product in declaration order
ModelDump(product) ==
    <<<<"title", product.title>>, <<"link", product.link>>, <<"asin", product.asin>>>>

\* variant: nothing is written for an empty list
ProductFile_EmptyForNone(products) ==
    IF products = <<>>
      THEN [header |-> <<>>, rows |-> <<>>]
      ELSE LET fieldnames == [k \in 1 .. 3 |-> ModelDump(products[1])[k][1]]
           IN  [header |-> fieldnames,
                rows |-> [j \in 1 .. Len(products) |->
                            [k \in 1 .. 3 |-> ModelDump(products[j])[k][2]]]]

\* what save_to_csv writes for a product list: the fixed header for an empty
\* list, else the field names of the first record and one row per record
ProductFile(products) ==
    IF products = <<>>
      THEN [header |-> <<"title", "link", "asin">>, rows |-> <<>>]
      ELSE LET fieldnames == [k \in 1 .. 3 |-> ModelDump(products[1])[k][1]]
           IN  [header |-> fieldnames,
                rows |-> [j \in 1 .. Len(products) |->
                            [k \in 1 .. 3 |-> ModelDump(products[j])[k][2]]]]

\* files with path p (re)written to hold content c
WriteFile(p, c) ==
    [q \in DOMAIN files \cup {p} |-> IF q = p THEN c ELSE files[q]]

SaveToCsv ==
    /\ pc = "save_to_csv"
    /\ \/ /\ files' = WriteFile(<<args.output>>, ProductFile(mainv.filtered_products))
          /\ Return(NoVal)
       \/ /\ UNCHANGED files                    \* open() fails
          /\ Raise("OSError")
    /\ UNCHANGED <<args, driver, mainv, search, listing, nav, rev, hsc>>

(* ---------------------------------------------------------------------- *)
(* AmazonService.navigate_to_reviews_by_asin                               *)
(* ---------------------------------------------------------------------- *)
NRA_Entry ==
    /\ pc = "navigate_to_reviews_by_asin"
    /\ nav' = NavInit
    /\ Step("nra_for")
    /\ UNCHANGED <<args, driver, files, mainv, search, listing, rev, hsc>>

\* `for url_template in review_url_templates`, and the return after the loop
NRA_For ==
    /\ pc = "nra_for"
    /\ IF nav.idx > Len(ReviewDomains)
         THEN Return(FALSE)
         ELSE Step("nra_get")
    /\ UNCHANGED <<args, driver, files, mainv, search, listing, nav, rev, hsc>>

\* self.driver.get(reviews_url): outside any try
NRA_Get ==
    /\ pc = "nra_get"
    /\ nav' = [nav EXCEPT !.loads = Append(@, ReviewDomains[nav.idx])]
    /\ driver' = [driver EXCEPT !.navKind = "reviews_asin", !.pageChecked = FALSE,
                                !.url = [hasParam |-> TRUE, pageNumber |-> 1]]
    /\ \E ok \in BOOLEAN :
         IF ok THEN Step("nra_challenge") ELSE Raise("WebDriverException")
    /\ UNCHANGED <<args, files, mainv, search, listing, rev, hsc>>

NRA_Challenge ==
    /\ pc = "nra_challenge"
    /\ Call("handle_security_challenges", "nra_wait")
    /\ UNCHANGED <<args, driver, files, mainv, search, listing, nav, rev, hsc>>

\* wait for the review list or the login e-mail field, whichever is present
NRA_Wait ==
    /\ pc = "nra_wait"
    /\ hsc' = HscInit
    /\ \/ \E page \in [reviewList : BOOLEAN, email : {"absent", "hidden", "visible"}] :
            IF page.reviewList \/ page.email # "absent"
              THEN /\ nav' = [nav EXCEPT !.page = page]
                   /\ Call("_is_login_form_present", "nra_checked")
              ELSE /\ nav' = [nav EXCEPT !.page = page, !.idx = @ + 1,     \* TimeoutException
                                         !.outcomes = Append(@, "timeout")]
                   /\ Step("nra_for")
       \/ /\ UNCHANGED nav                      \* any other exception is not caught
          /\ Raise("WebDriverException")
    /\ UNCHANGED <<args, driver, files, mainv, search, listing, rev>>

\* _is_login_form_present: wait for the e-mail field to be visible
ILF_Wait ==
    /\ pc = "_is_login_form_present"
    /\ \/ Return(nav.page.email = "visible")    \* False on TimeoutException
       \/ Raise("WebDriverException")
    /\ UNCHANGED <<args, driver, files, mainv, search, listing, nav, rev, hsc>>

\* variant: a variant that loaded without login does not end the loop
NRA_Checked_NoReturn ==
    /\ pc = "nra_checked"
    /\ IF exc # "none"
         THEN /\ Raise(exc)
              /\ UNCHANGED nav
         ELSE IF retval = TRUE
           THEN /\ Call("_handle_login", "nra_logged")
                /\ UNCHANGED nav
           ELSE /\ nav' = [nav EXCEPT !.outcomes = Append(@, "ready"), !.idx = @ + 1]
                /\ IF nav.idx = Len(ReviewDomains) THEN Return(TRUE) ELSE Step("nra_for")
    /\ UNCHANGED <<args, driver, files, mainv, search, listing, rev, hsc>>

NRA_Checked ==
    /\ pc = "nra_checked"
    /\ IF exc # "none"
         THEN /\ Raise(exc)
              /\ UNCHANGED nav
         ELSE IF retval = TRUE
           THEN /\ Call("_handle_login", "nra_logged")
                /\ UNCHANGED nav
           ELSE /\ nav' = [nav EXCEPT !.outcomes = Append(@, "ready")]
                /\ Return(TRUE)
    /\ UNCHANGED <<args, driver, files, mainv, search, listing, rev, hsc>>

\* `return self._handle_login()`
NRA_Logged ==
    /\ pc = "nra_logged"
    /\ nav' = [nav EXCEPT !.outcomes = Append(@, IF retval = TRUE THEN "login_ok" ELSE "login_failed")]
    /\ Return(retval)
    /\ UNCHANGED <<args, driver, files, mainv, search, listing, rev, hsc>>

(* ---------------------------------------------------------------------- *)
(* AmazonService._handle_login                                             *)
(* ---------------------------------------------------------------------- *)
\* variant: the error box is tested before the review list
LoginOutcome_ErrorFirst(seen) ==
    CASE "auth-error-message-box" \in seen -> "credential_error"
      [] "cm_cr-review_list" \in seen -> "success"
      [] "ap_captcha_img" \in seen -> "captcha"
      [] "auth-mfa-otpcode" \in seen \/ "cvf-page-content" \in seen -> "verification"
      [] OTHER -> "unknown"

\* the if-chain that classifies what is on the page after the submit
LoginOutcome(seen) ==
    CASE "cm_cr-review_list" \in seen -> "success"
      [] "auth-error-message-box" \in seen -> "credential_error"
      [] "ap_captcha_img" \in seen -> "captcha"
      [] "auth-mfa-otpcode" \in seen \/ "cvf-page-content" \in seen -> "verification"
      [] OTHER -> "unknown"

\* wait for the e-mail field, clear it, type the e-mail
HL_Email ==
    /\ pc = "_handle_login"
    /\ \E ok \in BOOLEAN :
         IF ok
           THEN /\ nav' = [nav EXCEPT !.logins = @ + 1]
                /\ Step("hl_continue")
           ELSE /\ nav' = [nav EXCEPT !.logins = @ + 1, !.login = "exception"]
                /\ Return(FALSE)
    /\ UNCHANGED <<args, driver, files, mainv, search, listing, rev, hsc>>

\* wait for the continue button, click it
HL_Continue ==
    /\ pc = "hl_continue"
    /\ \E ok \in BOOLEAN :
         IF ok
           THEN /\ UNCHANGED nav
                /\ Step("hl_password")
           ELSE /\ nav' = [nav EXCEPT !.login = "exception"]
                /\ Return(FALSE)
    /\ UNCHANGED <<args, driver, files, mainv, search, listing, rev, hsc>>

\* wait for the password field, type the password
HL_Password ==
    /\ pc = "hl_password"
    /\ \E ok \in BOOLEAN :
         IF ok
           THEN /\ UNCHANGED nav
                /\ Step("hl_signin")
           ELSE /\ nav' = [nav EXCEPT !.login = "exception"]
                /\ Return(FALSE)
    /\ UNCHANGED <<args, driver, files, mainv, search, listing, rev, hsc>>

\* wait for the sign-in button, click it
HL_SignIn ==
    /\ pc = "hl_signin"
    /\ \E ok \in BOOLEAN :
         IF ok
           THEN /\ nav' = [nav EXCEPT !.submitted = TRUE]
                /\ Step("hl_outcome")
           ELSE /\ nav' = [nav EXCEPT !.login = "exception"]
                /\ Return(FALSE)
    /\ UNCHANGED <<args, driver, files, mainv, search, listing, rev, hsc>>

\* wait up to 20 s for one of the five result markers
HL_Outcome ==
    /\ pc = "hl_outcome"
    /\ \E present \in BOOLEAN :
         IF present
           THEN /\ UNCHANGED nav
                /\ Step("hl_check")
           ELSE /\ nav' = [nav EXCEPT !.login = "timeout"]
                /\ Return(FALSE)
    /\ UNCHANGED <<args, driver, files, mainv, search, listing, rev, hsc>>

\* find_elements for each marker in turn, on the page as it is by then
HL_Check ==
    /\ pc = "hl_check"
    /\ \/ \E seen \in SUBSET LoginMarkers :
            /\ nav' = [nav EXCEPT !.seen = seen, !.login = LoginOutcome(seen)]
            /\ Return(LoginOutcome(seen) = "success")
       \/ /\ nav' = [nav EXCEPT !.login = "exception"]
          /\ Return(FALSE)
    /\ UNCHANGED <<args, driver, files, mainv, search, listing, rev, hsc>>

(* ---------------------------------------------------------------------- *)
(* AmazonService._translate_reviews_to_english                             *)
(* ---------------------------------------------------------------------- *)
\* look up the translate control by id, then by data-hook
TR_Find ==
    /\ pc = "_translate_reviews_to_english"
    /\ rev' = [rev EXCEPT !.translated = Append(@, driver.url.pageNumber)]
    /\ \E o \in {"found", "absent", "error"} :
         IF o = "found" THEN Step("tr_click") ELSE Return(FALSE)
    /\ UNCHANGED <<args, driver, files, mainv, search, listing, nav, hsc>>

\* scroll to the control, hover, click
TR_Click ==
    /\ pc = "tr_click"
    /\ \E o \in {"clicked", "not_interactable", "error"} :
         IF o = "clicked" THEN Step("tr_wait") ELSE Return(FALSE)
    /\ UNCHANGED <<args, driver, files, mainv, search, listing, nav, rev, hsc>>

\* wait for the review list after the click
TR_Wait ==
    /\ pc = "tr_wait"
    /\ \E found \in BOOLEAN : Return(found)
    /\ UNCHANGED <<args, driver, files, mainv, search, listing, nav, rev, hsc>>

(* ---------------------------------------------------------------------- *)
(* AmazonService._has_next_page                                            *)
(* ---------------------------------------------------------------------- *)
HNP_Check ==
    /\ pc = "_has_next_page"
    /\ \E o \in {"no_pagination", "no_button", "disabled", "enabled", "error"} :
         /\ o = "enabled" => driver.url.pageNumber < MaxReviewPages
         /\ rev' = [rev EXCEPT !.lastNext = o]
         /\ Return(o = "enabled")
    /\ UNCHANGED <<args, driver, files, mainv, search, listing, nav, hsc>>

(* ---------------------------------------------------------------------- *)
(* AmazonService._go_to_next_page                                          *)
(* ---------------------------------------------------------------------- *)
\* variant: the page number is advanced twice
NextPageNumber_Skip(url) ==
    IF url.hasParam THEN url.pageNumber + 2 ELSE 3

\* the page number _go_to_next_page puts in the next URL
NextPageNumber(url) ==
    IF url.hasParam THEN url.pageNumber + 1 ELSE 2

\* read current_url, parse pageNumber, build next_url
GNP_Url ==
    /\ pc = "_go_to_next_page"
    /\ \/ /\ rev' = [rev EXCEPT !.next_page = NextPageNumber(driver.url)]
          /\ Step("gnp_get")
       \/ /\ UNCHANGED rev
          /\ Return(FALSE)
    /\ UNCHANGED <<args, driver, files, mainv, search, listing, nav, hsc>>

\* self.driver.get(next_url)
GNP_Get ==
    /\ pc = "gnp_get"
    /\ \E ok \in BOOLEAN :
         IF ok
           THEN /\ driver' = [driver EXCEPT !.navKind = "reviews_next", !.pageChecked = FALSE,
                                            !.url = [hasParam |-> TRUE, pageNumber |-> rev.next_page]]
                /\ Step("gnp_wait")
           ELSE /\ UNCHANGED driver
                /\ Return(FALSE)
    /\ UNCHANGED <<args, files, mainv, search, listing, nav, rev, hsc>>

\* wait for the review list of the new page
GNP_Wait ==
    /\ pc = "gnp_wait"
    /\ \E found \in BOOLEAN : Return(found)
    /\ UNCHANGED <<args, driver, files, mainv, search, listing, nav, rev, hsc>>

(* ---------------------------------------------------------------------- *)
(* AmazonService.extract_reviews                                           *)
(* ---------------------------------------------------------------------- *)
\* the record built from review node k of page p
ReviewOf(p, k) == [page |-> p, idx |-> k]

\* the `max_reviews is not None and len(all_reviews) >= max_reviews` test
CapReached(max_reviews, all_reviews) ==
    max_reviews # None /\ Len(all_reviews) >= max_reviews[1]

ER_Entry ==
    /\ pc = "extract_reviews"
    /\ rev' = RevInit
    /\ Step("er_translate")
    /\ UNCHANGED <<args, driver, files, mainv, search, listing, nav, hsc>>

ER_Translate ==
    /\ pc = "er_translate"
    /\ Call("_translate_reviews_to_english", "er_find")
    /\ UNCHANGED <<args, driver, files, mainv, search, listing, nav, rev, hsc>>

\* find_elements with the review selectors, on the page the browser shows
ER_Find ==
    /\ pc = "er_find"
    /\ \/ \E n \in 0 .. MaxNodes :
            /\ rev' = [rev EXCEPT !.n = n, !.k = 0,
                                  !.visited = Append(@, driver.url.pageNumber),
                                  !.found = Append(@, n)]
            /\ IF n = 0 THEN Step("er_has_next") ELSE Step("er_node")
       \/ /\ rev' = [rev EXCEPT !.end = "error"]     \* outer except Exception
          /\ Return(rev.all_reviews)
    /\ UNCHANGED <<args, driver, files, mainv, search, listing, nav, hsc>>

\* variant: with a recency window given, the record of the node is left out
ER_Node_Window ==
    /\ pc = "er_node"
    /\ LET all_reviews == IF args.comments_in_last_n_days # None
                            THEN rev.all_reviews
                            ELSE Append(rev.all_reviews,
                                        ReviewOf(driver.url.pageNumber, rev.k + 1))
       IN  IF CapReached(args.max_reviews, all_reviews)
             THEN /\ rev' = [rev EXCEPT !.all_reviews = all_reviews, !.k = @ + 1, !.end = "cap"]
                  /\ Return(all_reviews)
             ELSE /\ rev' = [rev EXCEPT !.all_reviews = all_reviews, !.k = @ + 1]
                  /\ IF rev.k + 1 = rev.n THEN Step("er_has_next") ELSE Step("er_node")
    /\ UNCHANGED <<args, driver, files, mainv, search, listing, nav, hsc>>

\* one iteration of `for review in review_elements`
ER_Node ==
    /\ pc = "er_node"
    /\ LET all_reviews == Append(rev.all_reviews, ReviewOf(driver.url.pageNumber, rev.k + 1))
       IN  IF CapReached(args.max_reviews, all_reviews)
             THEN /\ rev' = [rev EXCEPT !.all_reviews = all_reviews, !.k = @ + 1, !.end = "cap"]
                  /\ Return(all_reviews)
             ELSE /\ rev' = [rev EXCEPT !.all_reviews = all_reviews, !.k = @ + 1]
                  /\ IF rev.k + 1 = rev.n THEN Step("er_has_next") ELSE Step("er_node")
    /\ UNCHANGED <<args, driver, files, mainv, search, listing, nav, hsc>>

ER_HasNext ==
    /\ pc = "er_has_next"
    /\ Call("_has_next_page", "er_go_next")
    /\ UNCHANGED <<args, driver, files, mainv, search, listing, nav, rev, hsc>>

\* `if not self._has_next_page(): break`, else call _go_to_next_page
ER_GoNext ==
    /\ pc = "er_go_next"
    /\ IF retval = TRUE
         THEN /\ Call("_go_to_next_page", "er_turned")
              /\ UNCHANGED rev
         ELSE /\ rev' = [rev EXCEPT !.end = "no_next"]
              /\ Return(rev.all_reviews)
    /\ UNCHANGED <<args, driver, files, mainv, search, listing, nav, hsc>>

\* variant: the translate control is tried on the first page only
ER_Turned_NoTranslate ==
    /\ pc = "er_turned"
    /\ IF retval = TRUE
         THEN /\ rev' = [rev EXCEPT !.current_page = @ + 1]
              /\ Step("er_find")
         ELSE /\ rev' = [rev EXCEPT !.end = "nav_failed"]
              /\ Return(rev.all_reviews)
    /\ UNCHANGED <<args, driver, files, mainv, search, listing, nav, hsc>>

\* variant: a failed page turn discards what was collected
ER_Turned_Drop ==
    /\ pc = "er_turned"
    /\ IF retval = TRUE
         THEN /\ rev' = [rev EXCEPT !.current_page = @ + 1]
              /\ Step("er_translate")
         ELSE /\ rev' = [rev EXCEPT !.end = "nav_failed"]
              /\ Return(<<>>)
    /\ UNCHANGED <<args, driver, files, mainv, search, listing, nav, hsc>>

\* `if not self._go_to_next_page(): break`, else current_page += 1
ER_Turned ==
    /\ pc = "er_turned"
    /\ IF retval = TRUE
         THEN /\ rev' = [rev EXCEPT !.current_page = @ + 1]
              /\ Step("er_translate")
         ELSE /\ rev' = [rev EXCEPT !.end = "nav_failed"]
              /\ Return(rev.all_reviews)
    /\ UNCHANGED <<args, driver, files, mainv, search, listing, nav, hsc>>

(* ---------------------------------------------------------------------- *)
(* AmazonService.save_reviews_to_csv                                       *)
(* ---------------------------------------------------------------------- *)
AlnumChars == {"T", "V", "P", "r", "o", "d", "u", "c", "t", "m", "e", "l", "X", "Y",
               "R", "g", "i", "n", "U"}

\* variant: the title is not cut
SafeTitle_NoCut(title) ==
    [j \in 1 .. Len(title) |-> IF title[j] \in AlnumChars THEN title[j] ELSE "_"]

\* "".join([c if c.isalnum() else "_" for c in product_title[:30]])
SafeTitle(title) ==
    [j \in 1 .. (IF Len(title) < TitleCut THEN Len(title) ELSE TitleCut) |->
        IF title[j] \in AlnumChars THEN title[j] ELSE "_"]

\* f"{filename_parts[0]}_{safe_title}.{filename_parts[1]}" for filename = base + ".csv"
ReviewPath(base, title) == <<base, SafeTitle(title)>>

\* what the file holds after save_reviews_to_csv: opened for writing, then
\* left empty for an empty list, else header and one row per review
ReviewFile(reviews) ==
    IF reviews = <<>>
      THEN [header |-> <<>>, rows |-> <<>>]
      ELSE [header |-> <<"customer_name", "country", "date", "title", "rating", "text",
                         "verified_purchase", "helpful_count", "image_urls">>,
            rows |-> reviews]

SaveReviewsToCsv ==
    /\ pc = "save_reviews_to_csv"
    /\ \/ /\ files' = WriteFile(ReviewPath(mainv.review_filename, mainv.product.title),
                                ReviewFile(mainv.reviews))
          /\ Return(NoVal)
       \/ /\ UNCHANGED files                    \* open() fails
          /\ Raise("OSError")
    /\ UNCHANGED <<args, driver, mainv, search, listing, nav, rev, hsc>>

(* ---------------------------------------------------------------------- *)
(* main.py: load_products_from_csv                                         *)
(* ---------------------------------------------------------------------- *)
\* sequences over S of length at most n
SeqUpTo(S, n) == UNION {[1 .. m -> S] : m \in 0 .. n}

\* rows csv.DictReader yields for a product file
ProductRows == [kind : {"dict"}, title : Titles, link : {"url"}, asin : Asins]

LP_Load ==
    /\ pc = "load_products_from_csv"
    /\ \/ Return(<<>>)                          \* file not found
       \/ Raise("OSError")                      \* open() fails
       \/ \E rows \in SeqUpTo(ProductRows, MaxRows) : Return(rows)
    /\ UNCHANGED <<args, driver, files, mainv, search, listing, nav, rev, hsc>>

(* ---------------------------------------------------------------------- *)
(* main.py: scrape_products                                                *)
(* ---------------------------------------------------------------------- *)
SP_Entry ==
    /\ pc = "scrape_products"
    /\ Call("perform_search", "sp_searched")
    /\ UNCHANGED <<args, driver, files, mainv, search, listing, nav, rev, hsc>>

\* `if not amazon_service.perform_search(search_term): return []`
SP_Searched ==
    /\ pc = "sp_searched"
    /\ search' = SearchInit
    /\ IF retval = TRUE
         THEN Call("extract_product_data", "sp_extracted")
         ELSE Return(<<>>)
    /\ UNCHANGED <<args, driver, files, mainv, listing, nav, rev, hsc>>

\* products = extract_product_data(); filter_products_by_os(products, "Roku")
SP_Extracted ==
    /\ pc = "sp_extracted"
    /\ mainv' = [mainv EXCEPT !.products = retval]
    /\ Call("filter_products_by_os", "sp_filtered")
    /\ UNCHANGED <<args, driver, files, search, listing, nav, rev, hsc>>

\* save_to_csv(filtered_products, output_file)
SP_Filtered ==
    /\ pc = "sp_filtered"
    /\ mainv' = [mainv EXCEPT !.filtered_products = retval]
    /\ listing' = ListingInit
    /\ Call("save_to_csv", "sp_saved")
    /\ UNCHANGED <<args, driver, files, search, nav, rev, hsc>>

\* return products
SP_Saved ==
    /\ pc = "sp_saved"
    /\ IF exc # "none" THEN Raise(exc) ELSE Return(mainv.products)
    /\ UNCHANGED <<args, driver, files, mainv, search, listing, nav, rev, hsc>>

(* ---------------------------------------------------------------------- *)
(* main.py: process_product_reviews                                        *)
(* ---------------------------------------------------------------------- *)
\* Python s[:k]
PySlice(s, k) ==
    LET n == IF k >= 0
               THEN (IF k < Len(s) THEN k ELSE Len(s))
               ELSE (IF Len(s) + k > 0 THEN Len(s) + k ELSE 0)
    IN  SubSeq(s, 1, n)

\* product['title'], product['asin']: a dict row can be subscripted, a Product model cannot
Subscriptable(product) == product.kind = "dict"

\* `if not products: return`, then reviews_dir.mkdir(exist_ok=True)
PPR_Entry ==
    /\ pc = "process_product_reviews"
    /\ IF mainv.products = <<>>
         THEN /\ Return(NoVal)
              /\ UNCHANGED mainv
         ELSE \/ /\ mainv' = [mainv EXCEPT !.i = 0, !.navigated = <<>>,
                                                !.extracted = <<>>, !.saved = <<>>]
                 /\ Step("ppr_for")
              \/ /\ UNCHANGED mainv
                 /\ Raise("OSError")
    /\ UNCHANGED <<args, driver, files, search, listing, nav, rev, hsc>>

\* `for i, product in enumerate(products[:max_products])` up to the call of
\* navigate_to_reviews_by_asin(product['asin'])
PPR_For ==
    /\ pc = "ppr_for"
    /\ LET todo == PySlice(mainv.products, args.max_products)
       IN  IF mainv.i >= Len(todo)
             THEN /\ Return(NoVal)
                  /\ UNCHANGED mainv
             ELSE IF ~Subscriptable(todo[mainv.i + 1])
               THEN /\ Raise("TypeError")
                    /\ UNCHANGED mainv
               ELSE /\ mainv' = [mainv EXCEPT !.product = todo[mainv.i + 1],
                                              !.navigated = Append(@, mainv.i + 1)]
                    /\ Call("navigate_to_reviews_by_asin", "ppr_navigated")
    /\ UNCHANGED <<args, driver, files, search, listing, nav, rev, hsc>>

\* `if not navigate_to_reviews_by_asin(...): continue`, else call extract_reviews
PPR_Navigated ==
    /\ pc = "ppr_navigated"
    /\ nav' = NavInit
    /\ IF exc # "none"
         THEN /\ Raise(exc)
              /\ UNCHANGED mainv
         ELSE IF retval = TRUE
           THEN /\ mainv' = [mainv EXCEPT !.extracted = Append(@, mainv.i + 1)]
                /\ Call("extract_reviews", "ppr_extracted")
           ELSE /\ mainv' = [mainv EXCEPT !.i = @ + 1]
                /\ Step("ppr_for")
    /\ UNCHANGED <<args, driver, files, search, listing, rev, hsc>>

\* reviews = extract_reviews(...); save_reviews_to_csv(title, reviews, reviews_product_{i+1}.csv)
PPR_Extracted ==
    /\ pc = "ppr_extracted"
    /\ rev' = RevInit
    /\ mainv' = [mainv EXCEPT !.reviews = retval,
                              !.review_filename = <<"reviews_product", mainv.i + 1>>,
                              !.saved = Append(@, mainv.i + 1)]
    /\ Call("save_reviews_to_csv", "ppr_saved")
    /\ UNCHANGED <<args, driver, files, search, listing, nav, hsc>>

PPR_Saved ==
    /\ pc = "ppr_saved"
    /\ IF exc # "none"
         THEN /\ Raise(exc)
              /\ UNCHANGED mainv
         ELSE /\ mainv' = [mainv EXCEPT !.i = @ + 1, !.reviews = <<>>]
              /\ Step("ppr_for")
    /\ UNCHANGED <<args, driver, files, search, listing, nav, rev, hsc>>

(* ---------------------------------------------------------------------- *)
(* main.py: process_reviews_from_csv_file                                  *)
(* ---------------------------------------------------------------------- *)
\* rows csv.DictReader yields for an ASIN-list file
AsinRows == [ASIN : {""} \cup Asins, model : Models, region : Regions]

\* f"Product model: {model} - Region: {region}"
AsinTitle(model, region) ==
    <<"P", "r", "o", "d", "u", "c", "t", " ", "m", "o", "d", "e", "l", ":", " ">>
      \o model \o <<" ", "-", " ", "R", "e", "g", "i", "o", "n", ":", " ">> \o region

\* the products built from the rows that have a non-empty ASIN, in row order
RECURSIVE AsinProducts(_)
AsinProducts(rows) ==
    IF rows = <<>>
      THEN <<>>
      ELSE LET row == Head(rows)
           IN  (IF row.ASIN # ""
                  THEN <<[kind |-> "dict", title |-> AsinTitle(row.model, row.region),
                          link |-> "", asin |-> row.ASIN]>>
                  ELSE <<>>) \o AsinProducts(Tail(rows))

\* open and read the file, `if not products: return`, mkdir
PRF_Load ==
    /\ pc = "process_reviews_from_csv_file"
    /\ \/ /\ Raise("OSError")                   \* open() fails: logged and re-raised
          /\ UNCHANGED mainv
       \/ \E rows \in SeqUpTo(AsinRows, MaxRows) :
            IF AsinProducts(rows) = <<>>
              THEN /\ Return(NoVal)
                   /\ UNCHANGED mainv
              ELSE \/ /\ mainv' = [mainv EXCEPT !.products = AsinProducts(rows),
                                                !.i = 0, !.navigated = <<>>,
                                                !.extracted = <<>>, !.saved = <<>>]
                      /\ Step("prf_for")
                   \/ /\ UNCHANGED mainv
                      /\ Raise("OSError")       \* mkdir fails: logged and re-raised
    /\ UNCHANGED <<args, driver, files, search, listing, nav, rev, hsc>>

PRF_For ==
    /\ pc = "prf_for"
    /\ LET todo == PySlice(mainv.products, args.max_products)
       IN  IF mainv.i >= Len(todo)
             THEN /\ Return(NoVal)
                  /\ UNCHANGED mainv
             ELSE /\ mainv' = [mainv EXCEPT !.product = todo[mainv.i + 1],
                                            !.navigated = Append(@, mainv.i + 1)]
                  /\ Call("navigate_to_reviews_by_asin", "prf_navigated")
    /\ UNCHANGED <<args, driver, files, search, listing, nav, rev, hsc>>

PRF_Navigated ==
    /\ pc = "prf_navigated"
    /\ nav' = NavInit
    /\ IF exc # "none"
         THEN /\ Raise(exc)
              /\ UNCHANGED mainv
         ELSE IF retval = TRUE
           THEN /\ mainv' = [mainv EXCEPT !.extracted = Append(@, mainv.i + 1)]
                /\ Call("extract_reviews", "prf_extracted")
           ELSE /\ mainv' = [mainv EXCEPT !.i = @ + 1]
                /\ Step("prf_for")
    /\ UNCHANGED <<args, driver, files, search, listing, rev, hsc>>

\* reviews = extract_reviews(...); save_reviews_to_csv(title, reviews, reviews_asin_{asin}.csv)
PRF_Extracted ==
    /\ pc = "prf_extracted"
    /\ rev' = RevInit
    /\ mainv' = [mainv EXCEPT !.reviews = retval,
                              !.review_filename = <<"reviews_asin", mainv.product.asin>>,
                              !.saved = Append(@, mainv.i + 1)]
    /\ Call("save_reviews_to_csv", "prf_saved")
    /\ UNCHANGED <<args, driver, files, search, listing, nav, hsc>>

PRF_Saved ==
    /\ pc = "prf_saved"
    /\ IF exc # "none"
         THEN /\ Raise(exc)
              /\ UNCHANGED mainv
         ELSE /\ mainv' = [mainv EXCEPT !.i = @ + 1, !.reviews = <<>>]
              /\ Step("prf_for")
    /\ UNCHANGED <<args, driver, files, search, listing, nav, rev, hsc>>

(* ---------------------------------------------------------------------- *)
(* main.py: main                                                           *)
(* ---------------------------------------------------------------------- *)
\* args = parse_arguments(); driver = setup_environment(args.use_profile)
Main_Setup ==
    /\ pc = "main"
    /\ \/ /\ driver' = [driver EXCEPT !.session = "open"]
          /\ UNCHANGED mainv
          /\ Step("main_branch")
       \/ /\ mainv' = [mainv EXCEPT !.escaped = "setup"]   \* no session was created
          /\ UNCHANGED driver
          /\ Step("exit")
    /\ UNCHANGED <<args, files, search, listing, nav, rev, hsc>>

\* variant: the input file is not looked at
Main_Branch_AlwaysSearch ==
    /\ pc = "main_branch"
    /\ IF args.fetch_reviews_from_file
         THEN Call("process_reviews_from_csv_file", "main_processed")
         ELSE Call("scrape_products", "main_products")
    /\ UNCHANGED <<args, driver, files, mainv, search, listing, nav, rev, hsc>>

\* the three exclusive branches on the command line
Main_Branch ==
    /\ pc = "main_branch"
    /\ IF args.fetch_reviews_from_file
         THEN Call("process_reviews_from_csv_file", "main_processed")
         ELSE IF args.input_file
           THEN Call("load_products_from_csv", "main_products")
           ELSE Call("scrape_products", "main_products")
    /\ UNCHANGED <<args, driver, files, mainv, search, listing, nav, rev, hsc>>

\* products = ...; `if args.reviews: process_product_reviews(...)`
Main_Products ==
    /\ pc = "main_products"
    /\ IF exc # "none"
         THEN /\ mainv' = [mainv EXCEPT !.caught = exc]
              /\ Step("main_except")
         ELSE /\ mainv' = [mainv EXCEPT !.products = retval]
              /\ IF args.reviews
                   THEN Call("process_product_reviews", "main_processed")
                   ELSE Step("main_finally")
    /\ UNCHANGED <<args, driver, files, search, listing, nav, rev, hsc>>

\* variant: driver.quit() at the end of the try block instead of in finally
Main_Processed_NoFinally ==
    /\ pc = "main_processed"
    /\ IF exc # "none"
         THEN /\ mainv' = [mainv EXCEPT !.caught = exc]
              /\ Step("exit")
         ELSE /\ UNCHANGED mainv
              /\ Step("main_finally")
    /\ UNCHANGED <<args, driver, files, search, listing, nav, rev, hsc>>

\* after the review loop: "Crawling completed successfully!", or the exception
Main_Processed ==
    /\ pc = "main_processed"
    /\ IF exc # "none"
         THEN /\ mainv' = [mainv EXCEPT !.caught = exc]
              /\ Step("main_except")
         ELSE /\ UNCHANGED mainv
              /\ Step("main_finally")
    /\ UNCHANGED <<args, driver, files, search, listing, nav, rev, hsc>>

\* except Exception as e: logger.exception(...)
Main_Except ==
    /\ pc = "main_except"
    /\ Step("main_finally")
    /\ UNCHANGED <<args, driver, files, mainv, search, listing, nav, rev, hsc>>

\* finally: driver.quit()
Main_Finally ==
    /\ pc = "main_finally"
    /\ driver' = [driver EXCEPT !.session = "closed", !.quitCalls = @ + 1]
    /\ \/ UNCHANGED mainv
       \/ mainv' = [mainv EXCEPT !.escaped = "quit"]       \* quit() itself raises
    /\ Step("exit")
    /\ UNCHANGED <<args, files, search, listing, nav, rev, hsc>>

(* ---------------------------------------------------------------------- *)
(* The specification                                                       *)
(* ---------------------------------------------------------------------- *)
\* the command lines tried
Args == [fetch_reviews_from_file : BOOLEAN,
         input_file : BOOLEAN,
         reviews : BOOLEAN,
         max_products : -1 .. MaxProductsArg,
         max_reviews : {None} \cup {Some(n) : n \in 0 .. MaxReviewsArg},
         comments_in_last_n_days : {None, Some(7)},
         output : {"out.csv"}]

Init ==
    /\ pc = "main"
    /\ stack = <<>>
    /\ retval = NoVal
    /\ exc = "none"
    /\ args \in Args
    /\ driver = DriverInit
    /\ files = <<>>
    /\ mainv = MainInit
    /\ search = SearchInit
    /\ listing = ListingInit
    /\ nav = NavInit
    /\ rev = RevInit
    /\ hsc = HscInit

Next ==
    \/ HSC_Scan \/ HSC_Prompt
    \/ PS_Entry \/ PS_While \/ PS_Get \/ PS_Challenge \/ PS_Box \/ PS_Type
    \/ PS_Results \/ PS_Except
    \/ EPD_Entry \/ EPD_Wait \/ EPD_Find \/ EPD_Item \/ EPD_Next \/ EPD_Click
    \/ EPD_Challenge \/ EPD_Turned
    \/ VP_Get \/ VP_Challenge \/ VP_Wait
    \/ FL_Entry \/ FL_Loop \/ FL_Visited \/ FL_System \/ FL_Comparison
    \/ FL_Specification \/ FL_Add
    \/ SaveToCsv
    \/ NRA_Entry \/ NRA_For \/ NRA_Get \/ NRA_Challenge \/ NRA_Wait \/ ILF_Wait
    \/ NRA_Checked \/ NRA_Logged
    \/ HL_Email \/ HL_Continue \/ HL_Password \/ HL_SignIn \/ HL_Outcome \/ HL_Check
    \/ TR_Find \/ TR_Click \/ TR_Wait
    \/ HNP_Check \/ GNP_Url \/ GNP_Get \/ GNP_Wait
    \/ ER_Entry \/ ER_Translate \/ ER_Find \/ ER_Node \/ ER_HasNext \/ ER_GoNext
    \/ ER_Turned
    \/ SaveReviewsToCsv
    \/ LP_Load
    \/ SP_Entry \/ SP_Searched \/ SP_Extracted \/ SP_Filtered \/ SP_Saved
    \/ PPR_Entry \/ PPR_For \/ PPR_Navigated \/ PPR_Extracted \/ PPR_Saved
    \/ PRF_Load \/ PRF_For \/ PRF_Navigated \/ PRF_Extracted \/ PRF_Saved
    \/ Main_Setup \/ Main_Branch \/ Main_Products \/ Main_Processed
    \/ Main_Except \/ Main_Finally

Spec == Init /\ [][Next]_vars

(* ---------------------------------------------------------------------- *)
(* Text values                                                             *)
(* ---------------------------------------------------------------------- *)
\* A Python str read from the page is the sequence of its space-separated
\* words (strip() is then the identity); a CSS class token is the sequence of
\* its dash-separated parts.
NA == <<"N/A">>

\* the least element of a non-empty set of integers
Least(S) == CHOOSE i \in S : \A j \in S : i <= j

\* s.find(pat) + 1: the first position at which pat occurs in s, 0 if none
Find(s, pat) ==
    LET at == {i \in 1 .. Len(s) - Len(pat) + 1 : SubSeq(s, i, i + Len(pat) - 1) = pat}
    IN  IF at = {} THEN 0 ELSE Least(at)

\* pat in s
Contains(s, pat) == Find(s, pat) # 0

\* s.split(pat)[0]
SplitHead(s, pat) ==
    IF Contains(s, pat) THEN SubSeq(s, 1, Find(s, pat) - 1) ELSE s

\* w.lower(), for the words the program tests in lower case
LowerWord(w) ==
    CASE w = "Verified" -> "verified"
      [] w = "Purchase" -> "purchase"
      [] w = "People" -> "people"
      [] w = "Person" -> "person"
      [] OTHER -> w

\* s.lower()
Lower(s) == [j \in 1 .. Len(s) |-> LowerWord(s[j])]

\* int(s): Some(n) for a decimal numeral, None when int() raises ValueError
Numerals == ("0" :> 0) @@ ("2" :> 2) @@ ("23" :> 23)

IntOf(s) ==
    IF Len(s) = 1 /\ s[1] \in DOMAIN Numerals THEN Some(Numerals[s[1]]) ELSE None

(* ---------------------------------------------------------------------- *)
(* AmazonService.extract_reviews: the record of one review node            *)
(* ---------------------------------------------------------------------- *)
OutOf == <<"out", "of">>
ReviewedIn == <<"Reviewed", "in">>
PeopleFound == <<"people", "found", "this", "helpful">>
PersonFound == <<"person", "found", "this", "helpful">>
VerifiedPurchase == <<"verified", "purchase">>

\* customer_name: span.a-profile-name, "N/A" when the lookup raises
CustomerName(node) ==
    "customer_name" :> (IF node.name = None THEN NA ELSE node.name[1])

\* the positions of a word "on" of s that has a word before it and one after it
OnAt(s) == {j \in 2 .. Len(s) - 1 : s[j] = "on"}

\* variant: without the " on " separator the date is what follows "Reviewed in "
CountryDateOf_Rest(date_text) ==
    LET i == Find(date_text, ReviewedIn)
        rest == SubSeq(date_text, i + 2, Len(date_text))
    IN  IF i = 0 \/ i + 2 > Len(date_text)
          THEN [country |-> NA, date |-> date_text]
          ELSE IF OnAt(rest) = {}
            THEN [country |-> NA, date |-> rest]
            ELSE LET j == Least(OnAt(rest))
                 IN  [country |-> SubSeq(rest, 1, j - 1),
                      date |-> SubSeq(rest, j + 1, Len(rest))]

\* country and date from the text of span[data-hook='review-date']
CountryDateOf(date_text) ==
    LET whole == [country |-> NA, date |-> date_text]
        i == Find(date_text, ReviewedIn)
        \* parts[1] of date_text.split("Reviewed in "); the separator ends with a
        \* space, so it occurs only where a word follows
        rest == SplitHead(SubSeq(date_text, i + 2, Len(date_text)), ReviewedIn)
    IN  IF i = 0 \/ i + 2 > Len(date_text)
          THEN whole
          ELSE IF OnAt(rest) = {}
            THEN whole
            ELSE LET j == Least(OnAt(rest))
                     after == SubSeq(rest, j + 1, Len(rest))
                     \* location_date[1]: up to the next " on "
                     d == IF OnAt(after) = {} THEN after
                          ELSE SubSeq(after, 1, Least(OnAt(after)) - 1)
                 IN  [country |-> SubSeq(rest, 1, j - 1), date |-> d]

CountryDate(node) ==
    LET cd == IF node.date = None
                THEN [country |-> NA, date |-> NA]
                ELSE CountryDateOf(node.date[1])
    IN  ("country" :> cd.country) @@ ("date" :> cd.date)

\* variant: the alternate title selector is not tried
Title_PrimaryOnly(node) ==
    "title" :> (IF node.title # None THEN node.title[1] ELSE NA)

\* title: a[data-hook='review-title'], else span[data-hook='review-title'], else "N/A"
Title(node) ==
    "title" :> (IF node.title # None THEN node.title[1]
                ELSE IF node.title_alt # None THEN node.title_alt[1]
                ELSE NA)

\* css_class.startswith("a-star-")
IsStarToken(t) == Len(t) >= 3 /\ t[1] = "a" /\ t[2] = "star"

\* variant: the rating is read from the last class token, star token or not
RatingOfElement_LastClass(el) ==
    IF el.classes = None
      THEN None
      ELSE LET classes == el.classes[1]
               t == classes[Len(classes)]
           IN  Some(<<t[Len(t)]>>)

\* The statements run on one rating element el (lines 471-480, again 485-494),
\* review_data holding no "rating" key before them: Some(r) when they leave r
\* in review_data["rating"], None when they raise.
RatingOfElement(el) ==
    IF el.classes = None
      THEN None                                 \* classes.split(): AttributeError
      ELSE LET classes == el.classes[1]
               stars == {i \in 1 .. Len(classes) : IsStarToken(classes[i])}
           IN  IF stars = {}
                 THEN None                      \* review_data["rating"]: KeyError
                 ELSE LET t == classes[Least(stars)]
                          r == <<t[Len(t)]>>    \* css_class.split("-")[-1]
                      IN  IF r = NA /\ Contains(el.text, OutOf)
                            THEN Some(SplitHead(el.text, OutOf))
                            ELSE Some(r)

\* rating: i[data-hook='review-star-rating']; when that block raises,
\* i[data-hook='cmps-review-star-rating']; when that raises too, "N/A"
Rating(node) ==
    LET first == IF node.rating = None THEN None ELSE RatingOfElement(node.rating[1])
        second == IF node.cmps = None THEN None ELSE RatingOfElement(node.cmps[1])
    IN  "rating" :> (IF first # None THEN first[1]
                     ELSE IF second # None THEN second[1]
                     ELSE NA)

\* text: span[data-hook='review-body']
Text(node) ==
    "text" :> (IF node.text = None THEN NA ELSE node.text[1])

\* full-size URL of a thumbnail URL: the test is on "_SY88", the replacement on "._SY88"
FullSizeUrl(url) ==
    IF url.size = "._SY88" THEN [url EXCEPT !.size = "._SL1600_"] ELSE url

\* images: no key when no tile is found, [] when the block raises (a tile
\* without src makes ReviewImage raise a validation error)
Images(node) ==
    IF node.images = None
      THEN "images" :> <<>>
      ELSE LET srcs == node.images[1]
           IN  IF srcs = <<>>
                 THEN <<>>
                 ELSE IF \E j \in 1 .. Len(srcs) : srcs[j] = None
                   THEN "images" :> <<>>
                   ELSE "images" :> [j \in 1 .. Len(srcs) |->
                                       [thumbnail_url |-> srcs[j][1],
                                        full_size_url |-> FullSizeUrl(srcs[j][1])]]

\* verified_purchase: the text of the first span[data-hook='avp-badge']
VerifiedPurchaseOf(node) ==
    "verified_purchase" :>
        (/\ node.verified # None
         /\ node.verified[1] # <<>>
         /\ Contains(Lower(node.verified[1][1]), VerifiedPurchase))

\* variant: the singular phrase is not tested
HelpfulCount_PluralOnly(node) ==
    "helpful_count" :>
        (IF node.helpful = None \/ node.helpful = Some(<<>>)
           THEN 0
           ELSE LET helpful_text == node.helpful[1][1]
                IN  IF Contains(Lower(helpful_text), PeopleFound)
                      THEN LET count == IntOf(SplitHead(helpful_text, <<"people">>))
                           IN  IF count = None THEN 0 ELSE count[1]
                      ELSE 0)

\* helpful_count: the text of the first .cr-vote-text
HelpfulCount(node) ==
    "helpful_count" :>
        (IF node.helpful = None \/ node.helpful = Some(<<>>)
           THEN 0
           ELSE LET helpful_text == node.helpful[1][1]
                IN  IF Contains(Lower(helpful_text), PeopleFound)
                      THEN LET count == IntOf(SplitHead(helpful_text, <<"people">>))
                           IN  IF count = None THEN 0 ELSE count[1]   \* int(count): ValueError
                      ELSE IF Contains(Lower(helpful_text), PersonFound)
                        THEN 1
                        ELSE 0)

\* review_data after the eight field blocks
ReviewData(node) ==
    CustomerName(node) @@ CountryDate(node) @@ Title(node) @@ Rating(node)
      @@ Text(node) @@ Images(node) @@ VerifiedPurchaseOf(node) @@ HelpfulCount(node)

(* ---------------------------------------------------------------------- *)
(* py_models/amazon_models.py: Review                                      *)
(* ---------------------------------------------------------------------- *)
DigitWords == {"0", "1", "2", "3", "4", "5"}

\* Review.validate_rating
validate_rating(v) ==
    IF Len(v) = 1 /\ v[1] \in DigitWords
      THEN v                                    \* v.isdigit()
      ELSE IF Contains(v, OutOf)
        THEN SplitHead(v, OutOf)                \* v.split("out of")[0].strip()
        ELSE v

\* Review(**data): a field that is not given takes its default, and a given
\* rating goes through validate_rating
Review(data) ==
    LET field(k, default) == IF k \in DOMAIN data THEN data[k] ELSE default
    IN  [customer_name |-> field("customer_name", NA),
         country |-> field("country", NA),
         date |-> field("date", NA),
         title |-> field("title", NA),
         rating |-> IF "rating" \in DOMAIN data THEN validate_rating(data["rating"]) ELSE NA,
         text |-> field("text", NA),
         images |-> field("images", <<>>),
         verified_purchase |-> field("verified_purchase", FALSE),
         helpful_count |-> field("helpful_count", 0)]

(* ---------------------------------------------------------------------- *)
(* py_models/amazon_models.py: Product                                     *)
(* ---------------------------------------------------------------------- *)
\* `not v` for an optional str
Falsy(v) == v = None \/ v = Some("")

\* Product.extract_asin(v, values), a mode='before' validator: pydantic passes
\* its ValidationInfo object as values, and `'link' in values` raises TypeError
\* on it; Some(asin) when the validator returns, None when it raises
extract_asin(v, values) ==
    IF Falsy(v) THEN None ELSE Some(v)

\* Product(title=..., link=..., asin=...): the validator runs only on an asin
\* that is given, the default None is taken as it is; Some(record), or None
\* when the validator raises
Product(a) ==
    IF ~a.given
      THEN Some([title |-> a.title, link |-> a.link, asin |-> None])
      ELSE LET v == extract_asin(a.asin, [link |-> a.link, title |-> a.title])
           IN  IF v = None
                 THEN None
                 ELSE Some([title |-> a.title, link |-> a.link, asin |-> v[1]])

(* ---------------------------------------------------------------------- *)
(* The record functions on their own                                       *)
(* ---------------------------------------------------------------------- *)
\* rating elements: class tokens and text
RatingElements ==
    {[classes |-> Some(<<<<"a", "icon">>, <<"a", "star", "4">>, <<"review", "rating">>>>),
      text |-> <<"4.0", "out", "of", "5", "stars">>],
     [classes |-> Some(<<<<"a", "icon">>, <<"a", "icon", "star">>>>),
      text |-> <<"3", "out", "of", "5">>],
     [classes |-> Some(<<<<"a", "star", "N/A">>>>),
      text |-> <<"2", "out", "of", "5">>],
     [classes |-> None,
      text |-> <<"1", "out", "of", "5">>]}

CmpsElements ==
    {[classes |-> Some(<<<<"a", "star", "5">>>>), text |-> <<>>],
     [classes |-> Some(<<<<"a", "icon">>>>), text |-> <<"5", "out", "of", "5">>]}

ImageUrls == {[stem |-> "i1", size |-> "._SY88"], [stem |-> "i2", size |-> ""]}

\* what the lookups on one review node give: None where the lookup raises
ReviewNodes ==
    [name : {None, Some(<<"Ann">>)},
     date : {None, Some(<<"Reviewed", "in", "US", "on", "D1">>), Some(<<"D1">>),
             Some(<<"Reviewed", "in", "the", "UK", "on", "May", "18">>),
             Some(<<"Reviewed", "in", "US">>)},
     title : {None, Some(<<"Good">>)},
     title_alt : {None, Some(<<"Fine">>)},
     rating : {None} \cup {Some(el) : el \in RatingElements},
     cmps : {None} \cup {Some(el) : el \in CmpsElements},
     text : {None, Some(<<"Works">>)},
     images : {None, Some(<<>>)}
                \cup {Some(<<Some(u)>>) : u \in ImageUrls}
                \cup {Some(<<Some(u), None>>) : u \in ImageUrls},
     verified : {None, Some(<<>>), Some(<<<<"Verified", "Purchase">>>>)},
     helpful : {None, Some(<<>>),
                Some(<<<<"23", "people", "found", "this", "helpful">>>>),
                Some(<<<<"One", "person", "found", "this", "helpful">>>>),
                Some(<<<<"1,234", "people", "found", "this", "helpful">>>>),
                Some(<<<<"1", "person", "found", "this", "helpful">>>>),
                Some(<<<<"Helpful">>>>)}]

\* rating values handed to Review directly
RatingValues == {<<"4">>, <<"4.5", "out", "of", "5">>, <<"4", "out", "of", "5">>, <<"4.5">>, NA}

ReviewArgs == {<<>>} \cup {"rating" :> r : r \in RatingValues}

\* product links, as the sequence of the path segments after the host
Links == {<<"TV", "dp", "B01", "ref">>, <<"dp", "B02">>, <<"gp", "product">>, <<"s", "dp">>}

ProductArgs ==
    [title : Titles, link : Links, given : {TRUE}, asin : {None, Some(""), Some("B01")}]
      \cup [title : Titles, link : Links, given : {FALSE}, asin : {None}]

(* ---------------------------------------------------------------------- *)
(* AmazonService.save_reviews_to_csv: file name and rows                   *)
(* ---------------------------------------------------------------------- *)
\* product_filename for a filename given as the sequence of its dot-separated
\* parts (filename.split(".")): parts 0 and 1 are used, None when
\* filename_parts[1] raises IndexError
ProductFilename(filename, product_title) ==
    IF Len(filename) < 2
      THEN None
      ELSE Some(<<filename[1], "_", SafeTitle(product_title), ".", filename[2]>>)

\* ','.join(items): the items with a comma between neighbours, '' for none
JoinComma(items) ==
    [j \in 1 .. (IF items = <<>> THEN 0 ELSE 2 * Len(items) - 1) |->
        IF j % 2 = 1 THEN items[(j + 1) \div 2] ELSE ","]

\* variant: the thumbnail URLs are written
ReviewRow_Thumbnails(review) ==
    [customer_name |-> review.customer_name, country |-> review.country,
     date |-> review.date, title |-> review.title, rating |-> review.rating,
     text |-> review.text, verified_purchase |-> review.verified_purchase,
     helpful_count |-> review.helpful_count,
     image_urls |-> JoinComma([j \in 1 .. Len(review.images) |->
                                 review.images[j].thumbnail_url])]

\* review.model_dump(exclude={'images'}) with the key image_urls added
ReviewRow(review) ==
    [customer_name |-> review.customer_name, country |-> review.country,
     date |-> review.date, title |-> review.title, rating |-> review.rating,
     text |-> review.text, verified_purchase |-> review.verified_purchase,
     helpful_count |-> review.helpful_count,
     image_urls |-> JoinComma([j \in 1 .. Len(review.images) |->
                                 review.images[j].full_size_url])]

\* reviews_dict[0].keys(): the fields of Review in declaration order without
\* images, then image_urls
ReviewColumns ==
    <<"customer_name", "country", "date", "title", "rating", "text",
      "verified_purchase", "helpful_count", "image_urls">>

\* what DictWriter writes for a non-empty list: writeheader, then a row per review
ReviewRows(reviews) ==
    [header |-> ReviewColumns,
     rows |-> [j \in 1 .. Len(reviews) |-> ReviewRow(reviews[j])]]

\* file names main.py hands over, as dot-separated parts
ReviewFilenames == {<<"reviews/reviews_product_1", "csv">>, <<"reviews/reviews_asin_B01", "csv">>}

\* product titles: empty, short, and two ASIN-list titles of 28 and 32 characters
ProductTitles ==
    Titles \cup {<<>>, AsinTitle(<<"X">>, <<"U">>), AsinTitle(<<"X", "Y", "-", "X", "Y">>, <<"U">>)}

FilenameArgs == [filename : ReviewFilenames, product_title : ProductTitles]

\* Review objects with zero, one and two images
ImageOf(u) == [thumbnail_url |-> u, full_size_url |-> FullSizeUrl(u)]

ImageLists ==
    {<<>>} \cup {<<ImageOf(u)>> : u \in ImageUrls}
           \cup {<<ImageOf(u), ImageOf(v)>> : u \in ImageUrls, v \in ImageUrls}

SavedReviews ==
    {Review(("customer_name" :> n) @@ ("images" :> imgs) @@ ("helpful_count" :> 2)) :
        n \in {<<"Ann">>, <<"Bob">>}, imgs \in ImageLists}

RowsArgs == {r \in SeqUpTo(SavedReviews, 2) : r # <<>>}

\* lines 656-661: safe_title and product_filename
SRC_Filename ==
    /\ pc = "src_filename"
    /\ pc' = "src_filename_end"
    /\ LET f == ProductFilename(args.filename, args.product_title)
       IN  IF f = None
             THEN retval' = NoVal /\ exc' = "IndexError"
             ELSE retval' = f[1] /\ exc' = "none"
    /\ UNCHANGED <<stack, args, driver, files, mainv, search, listing, nav, rev, hsc>>

\* lines 668-679: the header and rows written for a non-empty list
SRC_Rows ==
    /\ pc = "src_rows"
    /\ pc' = "src_rows_end"
    /\ retval' = ReviewRows(args)
    /\ exc' = "none"
    /\ UNCHANGED <<stack, args, driver, files, mainv, search, listing, nav, rev, hsc>>

\* review_obj = Review(**review_data) for one node (lines 419-553)
ER_Record ==
    /\ pc = "er_record"
    /\ pc' = "er_record_end"
    /\ retval' = Review(ReviewData(args))
    /\ exc' = "none"
    /\ UNCHANGED <<stack, args, driver, files, mainv, search, listing, nav, rev, hsc>>

\* Review(**data)
Review_New ==
    /\ pc = "Review"
    /\ pc' = "Review_end"
    /\ retval' = Review(args)
    /\ exc' = "none"
    /\ UNCHANGED <<stack, args, driver, files, mainv, search, listing, nav, rev, hsc>>

\* Product(title=..., link=..., asin=...)
Product_New ==
    /\ pc = "Product"
    /\ pc' = "Product_end"
    /\ LET p == Product(args)
       IN  IF p = None
             THEN retval' = NoVal /\ exc' = "TypeError"
             ELSE retval' = p[1] /\ exc' = "none"
    /\ UNCHANGED <<stack, args, driver, files, mainv, search, listing, nav, rev, hsc>>

RecordInit ==
    /\ \/ pc = "er_record" /\ args \in ReviewNodes
       \/ pc = "Review" /\ args \in ReviewArgs
       \/ pc = "Product" /\ args \in ProductArgs
       \/ pc = "src_filename" /\ args \in FilenameArgs
       \/ pc = "src_rows" /\ args \in RowsArgs
    /\ stack = <<>>
    /\ retval = NoVal
    /\ exc = "none"
    /\ driver = DriverInit
    /\ files = <<>>
    /\ mainv = MainInit
    /\ search = SearchInit
    /\ listing = ListingInit
    /\ nav = NavInit
    /\ rev = RevInit
    /\ hsc = HscInit

RecordNext == ER_Record \/ Review_New \/ Product_New \/ SRC_Filename \/ SRC_Rows

RecordSpec == RecordInit /\ [][RecordNext]_vars

(* ---------------------------------------------------------------------- *)
(* Properties                                                              *)
(* ---------------------------------------------------------------------- *)
\* the statements a call of navigate_to_reviews_by_asin returns to
NavReturn == {"ppr_navigated", "prf_navigated"}

\* the statements a call of extract_reviews returns to
ExtractReturn == {"ppr_extracted", "prf_extracted"}

\* the sequence <<1, ..., n>>
Upto(n) == [j \in 1 .. n |-> j]

\* the records of the pages in visited, found[j] of them on page visited[j], in order
RECURSIVE PageRecords(_, _)
PageRecords(visited, found) ==
    IF visited = <<>>
      THEN <<>>
      ELSE [k \in 1 .. Head(found) |-> ReviewOf(Head(visited), k)]
             \o PageRecords(Tail(visited), Tail(found))

C2_ReviewsFollowSearch ==
    (/\ pc = "exit"
     /\ ~args.fetch_reviews_from_file
     /\ ~args.input_file
     /\ args.reviews
     /\ mainv.products # <<>>
     /\ <<args.output>> \in DOMAIN files) =>
        /\ mainv.navigated = Upto(Len(PySlice(mainv.products, args.max_products)))
        /\ mainv.saved = mainv.extracted
        /\ \A j \in 1 .. Len(mainv.extracted) :
             \E m \in 1 .. Len(mainv.navigated) : mainv.navigated[m] = mainv.extracted[j]

\* C3: perform_search loads the home page at most 3 times; True comes at the
\* first attempt that reaches the results, False only after 3 failed attempts;
\* one backoff follows each failed attempt but the last.
C3_SearchAttempts ==
    /\ search.gets <= MaxRetries
    /\ search.backoffs <= search.retries
    /\ pc = "sp_searched" =>
         /\ retval = TRUE =>
              /\ search.gets = search.retries + 1
              /\ search.backoffs = search.retries
         /\ retval = FALSE =>
              /\ search.retries = MaxRetries
              /\ search.gets = MaxRetries
              /\ search.backoffs = MaxRetries - 1

\* the search succeeds at the third attempt, after two failures and two backoffs
C3_Witness ==
    /\ pc = "sp_searched"
    /\ retval = TRUE
    /\ search.retries = 2
    /\ search.gets = 3
    /\ search.backoffs = 2

\* the statements that wait for a page to be ready or read data from it
ReadinessOrExtraction ==
    {"ps_box", "ps_results", "epd_wait", "epd_find", "epd_item", "vp_wait",
     "nra_wait", "_is_login_form_present", "gnp_wait", "er_find", "er_node"}

\* C4: after each navigation (home page, listing next page, product detail,
\* review listing by ASIN, review next page) handle_security_challenges runs on
\* the new page before any readiness wait or extraction.
C4_ChallengeAfterNavigation ==
    pc \in ReadinessOrExtraction => driver.pageChecked

\* an outcome of a regional variant that gives no usable review listing
FailedVariant == {"timeout", "login_failed"}

\* C5: the regional variants are loaded in the order .com, .de, .co.uk, a later
\* one only after all earlier ones failed; True is returned at the first variant
\* that succeeds, with no later load; False only when no loaded variant succeeded.
C5_RegionalOrder ==
    /\ Len(nav.loads) <= Len(ReviewDomains)
    /\ \A j \in 1 .. Len(nav.loads) : nav.loads[j] = ReviewDomains[j]
    /\ Len(nav.loads) <= Len(nav.outcomes) + 1
    /\ \A j \in 1 .. Len(nav.outcomes) :
         j < Len(nav.loads) => nav.outcomes[j] \in FailedVariant
    /\ (pc \in NavReturn /\ exc = "none") =>
         /\ Len(nav.outcomes) = Len(nav.loads)
         /\ retval = TRUE =>
              /\ nav.loads # <<>>
              /\ nav.outcomes[Len(nav.outcomes)] \in {"ready", "login_ok"}
         /\ retval = FALSE =>
              \A j \in 1 .. Len(nav.outcomes) : nav.outcomes[j] \in FailedVariant

\* .com and .de time out, .co.uk shows the review list
C5_Witness ==
    /\ pc \in NavReturn
    /\ exc = "none"
    /\ retval = TRUE
    /\ nav.loads = ReviewDomains
    /\ nav.outcomes = <<"timeout", "timeout", "ready">>

\* C6: the login sequence runs only when the e-mail field is there, at most
\* once per navigation call; it succeeds exactly when the review list is found
\* after the submit; every other outcome is a failure, and no variant is loaded
\* and no login retried after it.
C6_LoginOnce ==
    /\ nav.logins <= 1
    /\ nav.logins = 1 => nav.page.email = "visible"
    /\ pc = "nra_logged" =>
         /\ nav.logins = 1
         /\ retval = (nav.submitted /\ "cm_cr-review_list" \in nav.seen)
         /\ nav.login \in {"credential_error", "captcha", "verification", "timeout",
                           "unknown", "exception"} => retval = FALSE
    /\ (pc \in NavReturn /\ exc = "none" /\ nav.logins = 1) =>
         /\ Len(nav.outcomes) = Len(nav.loads)
         /\ nav.outcomes[Len(nav.outcomes)] = (IF retval THEN "login_ok" ELSE "login_failed")

\* the login was submitted and ended on the CAPTCHA marker
C6_Witness ==
    /\ pc = "nra_logged"
    /\ nav.submitted
    /\ nav.login = "captcha"
    /\ retval = FALSE

\* C7: perform_search, visit_product_details and navigate_to_reviews_by_asin
\* hand a result to their caller; no exception leaves them.
C7_NoEscape ==
    pc \in {"sp_searched", "fl_visited"} \cup NavReturn => exc = "none"

\* C8: with max_reviews given, extract_reviews returns at most max_reviews
\* records, and it returns as soon as that many are collected.
C8_CapRespected ==
    (pc \in ExtractReturn /\ args.max_reviews # None) =>
        /\ Len(retval) <= args.max_reviews[1]
        /\ (retval # <<>> /\ Len(retval) = args.max_reviews[1]) => rev.end = "cap"

\* C9: without a cap, when extraction ends on a page whose next control is
\* disabled or absent, the pages 1, 2, ... up to that page were each visited once,
\* in order, and the result holds the records of all of them, in page order.
C9_AllPagesInOrder ==
    (/\ pc \in ExtractReturn
     /\ args.max_reviews = None
     /\ rev.end = "no_next"
     /\ rev.lastNext \in {"disabled", "no_button", "no_pagination"}) =>
        /\ rev.visited = Upto(Len(rev.visited))
        /\ driver.url.pageNumber = Len(rev.visited)
        /\ retval = PageRecords(rev.visited, rev.found)

\* two pages with one review each, the second with a disabled next control
C9_Witness ==
    /\ pc \in ExtractReturn
    /\ args.max_reviews = None
    /\ rev.end = "no_next"
    /\ rev.lastNext = "disabled"
    /\ rev.visited = <<1, 2>>
    /\ retval = <<ReviewOf(1, 1), ReviewOf(2, 1)>>

\* C10: when the move to the next review page fails, extract_reviews raises
\* nothing and returns exactly the records of the pages processed before.
C10_NavFailureKeepsRecords ==
    (pc \in ExtractReturn /\ rev.end = "nav_failed") =>
        /\ exc = "none"
        /\ retval = PageRecords(rev.visited, rev.found)

\* the move from page 1 to page 2 fails after one review was collected
C10_Witness ==
    /\ pc \in ExtractReturn
    /\ rev.end = "nav_failed"
    /\ rev.visited = <<1>>
    /\ retval = <<ReviewOf(1, 1)>>

\* the star tokens among the class tokens of a rating element
StarTokensOf(el) ==
    IF el.classes = None THEN {}
    ELSE {i \in 1 .. Len(el.classes[1]) : IsStarToken(el.classes[1][i])}

\* C11: every review node gives exactly one record; a field whose lookup failed
\* holds its default ("N/A", no image, False, 0), a field whose lookup worked
\* holds what was read, whatever the other lookups did.
C11_RecordDefaults ==
    pc = "er_record_end" =>
        /\ exc = "none"
        /\ DOMAIN retval = {"customer_name", "country", "date", "title", "rating",
                            "text", "images", "verified_purchase", "helpful_count"}
        /\ retval.customer_name = (IF args.name = None THEN NA ELSE args.name[1])
        /\ args.date = None => (retval.country = NA /\ retval.date = NA)
        /\ args.date # None =>
             /\ retval.date # <<>>
             /\ Contains(args.date[1], retval.date)
             /\ retval.country = NA \/ Contains(args.date[1], retval.country)
        /\ args.title # None => retval.title = args.title[1]
        /\ (args.title = None /\ args.title_alt # None) => retval.title = args.title_alt[1]
        /\ (args.title = None /\ args.title_alt = None) => retval.title = NA
        /\ (args.rating = None /\ args.cmps = None) => retval.rating = NA
        /\ (args.rating # None /\ StarTokensOf(args.rating[1]) # {}) => retval.rating # NA
        /\ retval.text = (IF args.text = None THEN NA ELSE args.text[1])
        /\ args.images \in {None, Some(<<>>)} => retval.images = <<>>
        /\ (args.images # None /\ \A j \in 1 .. Len(args.images[1]) : args.images[1][j] # None) =>
             /\ Len(retval.images) = Len(args.images[1])
             /\ \A j \in 1 .. Len(retval.images) :
                  retval.images[j].thumbnail_url = args.images[1][j][1]
        /\ args.verified = None => retval.verified_purchase = FALSE
        /\ args.verified = Some(<<<<"Verified", "Purchase">>>>) => retval.verified_purchase = TRUE
        /\ args.helpful \in {None, Some(<<>>)} => retval.helpful_count = 0
        /\ args.helpful = Some(<<<<"23", "people", "found", "this", "helpful">>>>) =>
             retval.helpful_count = 23

\* the name, the date, the primary title, both rating elements and the vote
\* lookup fail; title, text and badge are read
C11_Witness ==
    /\ pc = "er_record_end"
    /\ args.name = None /\ args.date = None /\ args.title = None
    /\ args.rating = None /\ args.cmps = None /\ args.helpful = None
    /\ retval.customer_name = NA /\ retval.country = NA /\ retval.date = NA
    /\ retval.rating = NA /\ retval.helpful_count = 0
    /\ retval.title = <<"Fine">>
    /\ retval.text = <<"Works">>
    /\ retval.verified_purchase = TRUE

\* the path segment after the first "/dp/" of a link
CatalogKey(link) ==
    link[Least({i \in 1 .. Len(link) - 1 : link[i] = "dp"}) + 1]

\* C15: a Product built with title and link and no identifier, whose link has a
\* "/dp/<key>" segment, gets <key> as its identifier.
C15_IdentifierFromLink ==
    (/\ pc = "Product_end"
     /\ ~args.given \/ Falsy(args.asin)
     /\ \E i \in 1 .. Len(args.link) - 1 : args.link[i] = "dp") =>
        /\ exc = "none"
        /\ retval.asin = Some(CatalogKey(args.link))

\* C19: rating element found, no star token in its class string, text
\* "N out of 5": the rating of the record is N.
C19_TextFallback ==
    (/\ pc = "er_record_end"
     /\ args.rating # None
     /\ args.rating[1].classes # None
     /\ StarTokensOf(args.rating[1]) = {}
     /\ Contains(args.rating[1].text, OutOf)) =>
        retval.rating = SplitHead(args.rating[1].text, OutOf)

SaveReturn == {"ppr_saved", "prf_saved"}

\* C12: save_reviews_to_csv called with an empty review list leaves no file at
\* the review path of the product.
C12_NoEmptyReviewFile ==
    (pc \in SaveReturn /\ exc = "none" /\ mainv.reviews = <<>>) =>
        ReviewPath(mainv.review_filename, mainv.product.title) \notin DOMAIN files


\* C13: after save_to_csv the product file holds the header title, link, asin
\* and one row per product of the list, in list order; for an empty list the
\* header alone.
C13_ProductFileRows ==
    (pc = "sp_saved" /\ exc = "none") =>
        /\ <<args.output>> \in DOMAIN files
        /\ LET f == files[<<args.output>>]
               ps == mainv.filtered_products
           IN  /\ f.header = <<"title", "link", "asin">>
               /\ Len(f.rows) = Len(ps)
               /\ \A j \in 1 .. Len(ps) :
                    f.rows[j] = <<ps[j].title, ps[j].link, ps[j].asin>>

\* no product passed the filter and the file holds the header only
C13_Witness ==
    /\ pc = "sp_saved"
    /\ exc = "none"
    /\ mainv.products # <<>>
    /\ mainv.filtered_products = <<>>
    /\ files[<<args.output>>] = [header |-> <<"title", "link", "asin">>, rows |-> <<>>]


\* a product record with a title, a link and an identifier
Complete(r) == r.title # <<>> /\ r.link # "" /\ r.asin # ""

\* C14: one result container adds at most one record to the list, none when
\* its title, link or identifier is empty or when its title link is found under
\* neither selector; every record of the list, and so of the result, has a
\* non-empty title, link and identifier.
C14_CompleteRecords ==
    [][/\ pc = "epd_item" =>
            LET c == listing'.container[1]
                old == listing.all_products
                new == listing'.all_products
            IN  /\ Len(new) \in {Len(old), Len(old) + 1}
                /\ SubSeq(new, 1, Len(old)) = old
                /\ (\/ c.title = <<>> \/ c.link = "" \/ c.asin = ""
                    \/ c.primary = "error"
                    \/ (c.primary = "nosuch" /\ c.alt = "fail")) => new = old
                /\ \A j \in 1 .. Len(new) : Complete(new[j])
       /\ pc' = "sp_extracted" =>
            /\ exc' = "none"
            /\ retval' = listing'.all_products
            /\ \A j \in 1 .. Len(retval') : Complete(retval'[j])]_vars

\* a container with a title link but no data-asin attribute added nothing
C14_Witness ==
    /\ pc = "epd_next"
    /\ listing.container # None
    /\ listing.container[1].primary = "ok"
    /\ listing.container[1].title # <<>>
    /\ listing.container[1].link # ""
    /\ listing.container[1].asin = ""
    /\ listing.all_products = <<>>

\* the concatenation of a sequence of sequences
RECURSIVE Flatten(_)
Flatten(ss) == IF ss = <<>> THEN <<>> ELSE Head(ss) \o Flatten(Tail(ss))

\* C16: extract_product_data processes the result pages 1, 2, ... in order,
\* goes on only from a page whose next-page control is there and enabled,
\* raises nothing, and returns the records of all the pages it processed.
C16_ListingTraversal ==
    /\ listing.pages = Upto(Len(listing.pages))
    /\ \A j \in 1 .. Len(listing.nexts) :
         j < Len(listing.pages) => listing.nexts[j] = "enabled"
    /\ pc = "sp_extracted" =>
         /\ exc = "none"
         /\ retval = Flatten(listing.perPage)
         /\ Len(listing.perPage) = Len(listing.pages)
         /\ Len(listing.nexts) <= Len(listing.pages)

\* two pages with one record each, the second with a disabled next-page control
C16_Witness ==
    /\ pc = "sp_extracted"
    /\ listing.pages = <<1, 2>>
    /\ listing.nexts = <<"enabled", "disabled">>
    /\ Len(listing.perPage[1]) = 1
    /\ Len(listing.perPage[2]) = 1
    /\ Len(retval) = 2


\* the statements a call of handle_security_challenges returns to
HscReturn == {"ps_box", "epd_turned", "vp_wait", "nra_wait"}

\* C17: handle_security_challenges raises nothing; it returns True exactly when
\* a challenge marker was found, after one console prompt, and False without
\* any prompt when no marker was found.
C17_TrueIffMarker ==
    pc \in HscReturn =>
        /\ exc = "none"
        /\ (retval = TRUE) = hsc.found
        /\ hsc.prompts = (IF hsc.found THEN 1 ELSE 0)


\* the three strategies of filter_products_by_os, in the order of the code
Strategies == <<"system", "comparison", "specification">>

\* the elements of s at the positions where keep is TRUE, in order
RECURSIVE Select(_, _)
Select(s, keep) ==
    IF s = <<>>
      THEN <<>>
      ELSE (IF Head(keep) THEN <<Head(s)>> ELSE <<>>) \o Select(Tail(s), Tail(keep))

\* C18: the strategies run in the order system panel, comparison table,
\* specification table, a later one exactly when all earlier ones gave no match
\* (an error counts as no match); the result is the subsequence of the input
\* whose page loaded and for which a strategy matched, and a page that fails to
\* load does not stop the loop.
C18_FilterStrategies ==
    /\ Len(listing.tried) <= Len(Strategies)
    /\ \A j \in 1 .. Len(listing.tried) :
         /\ listing.tried[j][1] = Strategies[j]
         /\ j < Len(listing.tried) => listing.tried[j][2] \in {"nomatch", "error"}
    /\ pc = "fl_add" =>
         /\ listing.tried # <<>>
         /\ Len(listing.tried) < Len(Strategies) =>
              listing.tried[Len(listing.tried)][2] = "match"
         /\ listing.is_matching_os = (listing.tried[Len(listing.tried)][2] = "match")
    /\ pc = "sp_filtered" =>
         /\ exc = "none"
         /\ Len(listing.kept) = Len(listing.products)
         /\ retval = Select(listing.products, listing.kept)

\* the system panel raised, the comparison table had no match, the
\* specification table matched
C18_Witness ==
    /\ pc = "fl_add"
    /\ listing.tried = <<<<"system", "error">>, <<"comparison", "nomatch">>,
                         <<"specification", "match">>>>
    /\ listing.is_matching_os


\* ---- C21 ----
\* the vote texts of the plural form with a decimal count, and of the singular form
PluralVotes == {<<n>> \o PeopleFound : n \in DOMAIN Numerals}

SingularVotes == {<<w>> \o PersonFound : w \in {"1", "One"}}

ReviewedInOn(date_text, j) ==
    /\ Len(date_text) >= 5
    /\ SubSeq(date_text, 1, 2) = ReviewedIn
    /\ j \in 4 .. Len(date_text) - 1
    /\ \A k \in 3 .. Len(date_text) : date_text[k] = "on" <=> k = j

\* date_text has the "Reviewed in" prefix / has an " on " separator
HasPrefix(date_text) == Len(date_text) >= 2 /\ SubSeq(date_text, 1, 2) = ReviewedIn

HasSeparator(date_text) == \E k \in 2 .. Len(date_text) - 1 : date_text[k] = "on"

Min(a, b) == IF a < b THEN a ELSE b

\* C23: the title fragment of a review file name has length min(30, length of
\* the title), keeps every alphanumeric character of the first 30 characters
\* of the title in place and has an underscore at every other position;
\* sanitizing the fragment again leaves it unchanged; the file name is the base
\* name, an underscore, the fragment, a dot and the extension of the base name.
C23_TitleFragment ==
    pc = "src_filename_end" =>
        /\ exc = "none"
        /\ LET title == args.product_title
               fragment == retval[3]
           IN  /\ Len(fragment) = Min(30, Len(title))
               /\ \A j \in 1 .. Len(fragment) :
                      IF title[j] \in AlnumChars THEN fragment[j] = title[j]
                                                 ELSE fragment[j] = "_"
               /\ SafeTitle(fragment) = fragment
               /\ retval = <<args.filename[1], "_", fragment, ".", args.filename[2]>>

\* C23 witness: a title of 32 characters gives a fragment of 30, the colon and
\* the spaces replaced
C23_Witness ==
    /\ pc = "src_filename_end"
    /\ Len(args.product_title) = 32
    /\ Len(retval[3]) = 30
    /\ retval[3][14] = "_"
    /\ retval[3][16] = "X"

\* ---- C24 ----
\* C24: for a non-empty review list the file gets the header customer_name,
\* country, date, title, rating, text, verified_purchase, helpful_count,
\* image_urls and one row per review in input order; image_urls of a row is
\* the full-size URLs of the review's images in order with a comma between
\* neighbours, and empty when the review has no image.
C24_ReviewRows ==
    pc = "src_rows_end" =>
        /\ retval.header = <<"customer_name", "country", "date", "title", "rating", "text",
                             "verified_purchase", "helpful_count", "image_urls">>
        /\ Len(retval.rows) = Len(args)
        /\ \A j \in 1 .. Len(args) :
              LET review == args[j]
                  row == retval.rows[j]
                  n == Len(review.images)
              IN  /\ row.customer_name = review.customer_name
                  /\ row.country = review.country
                  /\ row.date = review.date
                  /\ row.title = review.title
                  /\ row.rating = review.rating
                  /\ row.text = review.text
                  /\ row.verified_purchase = review.verified_purchase
                  /\ row.helpful_count = review.helpful_count
                  /\ Len(row.image_urls) = (IF n = 0 THEN 0 ELSE 2 * n - 1)
                  /\ \A k \in 1 .. n : row.image_urls[2 * k - 1] = review.images[k].full_size_url
                  /\ \A k \in 1 .. n - 1 : row.image_urls[2 * k] = ","

\* C24 witness: two reviews, the first with two images whose full-size URL
\* differs from the thumbnail, the second with none
C24_Witness ==
    /\ pc = "src_rows_end"
    /\ Len(args) = 2
    /\ Len(args[1].images) = 2
    /\ args[1].images[1].full_size_url # args[1].images[1].thumbnail_url
    /\ args[2].images = <<>>
    /\ Len(retval.rows) = 2
    /\ Len(retval.rows[1].image_urls) = 3
    /\ retval.rows[2].image_urls = <<>>

\* ---- C25 ----
\* the statements of the search, of the listing extraction, of the attribute
\* filter and of the product-file write
SearchFlow ==
    {"scrape_products", "sp_searched", "sp_extracted", "sp_filtered", "sp_saved",
     "perform_search", "ps_while", "ps_get", "ps_challenge", "ps_box", "ps_type",
     "ps_results", "ps_except",
     "extract_product_data", "epd_wait", "epd_find", "epd_item", "epd_next", "epd_click",
     "epd_challenge", "epd_turned",
     "filter_products_by_os", "fl_loop", "fl_visited", "fl_system", "fl_comparison",
     "fl_specification", "fl_add",
     "visit_product_details", "vp_challenge", "vp_wait",
     "save_to_csv"}

\* C25: with an ASIN-list file given, or with an input file given, the run
\* never searches, extracts a listing, filters or writes the product file,
\* whatever the other flags are; with an input file and no ASIN-list file the
\* products are the rows loaded from that file.
C25_ExclusiveBranches ==
    /\ (args.fetch_reviews_from_file \/ args.input_file) =>
         /\ pc \notin SearchFlow
         /\ \A j \in 1 .. Len(stack) : stack[j] \notin SearchFlow
         /\ driver.navKind \notin {"home", "listing_next", "detail"}
         /\ search = SearchInit
         /\ listing = ListingInit
         /\ <<args.output>> \notin DOMAIN files
    /\ args.fetch_reviews_from_file => pc # "load_products_from_csv"
    /\ (args.input_file /\ ~args.fetch_reviews_from_file) =>
         /\ pc \notin {"process_reviews_from_csv_file", "prf_for"}
         /\ (pc = "main_products" /\ exc = "none") =>
               \A j \in 1 .. Len(retval) : retval[j] \in ProductRows
         /\ pc = "process_product_reviews" =>
               \A j \in 1 .. Len(mainv.products) : mainv.products[j] \in ProductRows

\* C25 witness: a run with an ASIN-list file and every other flag given ended
\* with a review file written and no product file
C25_Witness ==
    /\ pc = "exit"
    /\ args.fetch_reviews_from_file
    /\ args.input_file
    /\ args.reviews
    /\ DOMAIN files # {}
    /\ <<args.output>> \notin DOMAIN files

\* ---- C26 ----
\* what extract_reviews returns for the pages it saw and the cap: the records
\* of the pages in order, cut where the cap test first holds
ExpectedRecords(visited, found, max_reviews) ==
    LET all == PageRecords(visited, found)
        stop == IF max_reviews = None THEN 0
                ELSE IF max_reviews[1] < 1 THEN 1 ELSE max_reviews[1]
    IN  IF max_reviews # None /\ Len(all) >= stop THEN SubSeq(all, 1, stop) ELSE all

AttemptPerPage(r) ==
    /\ Len(r.translated) \in {Len(r.visited), Len(r.visited) + 1}
    /\ \A j \in 1 .. Len(r.visited) : r.translated[j] = r.visited[j]
    /\ \A j, m \in 1 .. Len(r.translated) : r.translated[j] = r.translated[m] => j = m

\* C27: on every review page extract_reviews visits, exactly one translate
\* attempt is made, before the review nodes of the page are located; whatever
\* the attempt gave (control absent, not clickable, an error), the nodes of the
\* page are located next and its reviews extracted.
C27_TranslateOncePerPage ==
    [][/\ AttemptPerPage(rev')
       /\ pc = "er_find" =>
            /\ exc = "none"
            /\ retval \in BOOLEAN
            /\ Len(rev.translated) = Len(rev.visited) + 1
            /\ rev.translated[Len(rev.translated)] = driver.url.pageNumber
            /\ \/ rev'.end = "error"
               \/ /\ rev'.visited = Append(rev.visited, driver.url.pageNumber)
                  /\ rev'.translated = rev.translated
                  /\ pc' = (IF rev'.n = 0 THEN "er_has_next" ELSE "er_node")
       /\ pc = "er_node" =>
            /\ rev.translated = rev.visited
            /\ rev'.all_reviews = Append(rev.all_reviews,
                                         ReviewOf(rev.translated[Len(rev.translated)], rev.k + 1))
      ]_vars

\* C27 witness: the attempt on page 2 failed, after the attempt on page 1 and
\* the extraction of its review; the nodes of page 2 are located next
C27_Witness ==
    /\ pc = "er_find"
    /\ retval = FALSE
    /\ rev.translated = <<1, 2>>
    /\ rev.visited = <<1>>
    /\ rev.all_reviews = <<ReviewOf(1, 1)>>

\* ---- C28 ----
\* C28: in both review loops at most max_products products (max_products >= 0)
\* are processed, in input order; after a review navigation that fails no
\* extraction runs and no file is written for the product, and the loop goes
\* on with the next product.
C28_SkipAndContinue ==
    [][/\ args.max_products >= 0 =>
            /\ Len(mainv'.navigated) <= args.max_products
            /\ mainv'.navigated = Upto(Len(mainv'.navigated))
       /\ (pc \in NavReturn /\ (exc # "none" \/ retval = FALSE)) =>
            /\ mainv'.extracted = mainv.extracted
            /\ mainv'.saved = mainv.saved
            /\ files' = files
            /\ pc' = (IF pc = "ppr_navigated" THEN "ppr_for" ELSE "prf_for")
            /\ mainv'.i = mainv.i + 1
      ]_vars

C30_DistinctReviewPaths ==
    [][(pc = "save_reviews_to_csv" /\ files' # files) =>
           ReviewPath(mainv.review_filename, mainv.product.title) \notin DOMAIN files
      ]_vars

====
